---- MODULE Spec2Model ----
(***************************************************************************)
(* A model of the balloon-lang tree-walking evaluator                      *)
(* (src/src/ast_walk_interpreter.rs) and type checker                      *)
(* (src/src/typechecker.rs).                                               *)
(*                                                                         *)
(* The evaluator is a set of mutually recursive functions over a shared,   *)
(* mutable graph of environments.  The model keeps that graph as an arena  *)
(* (`heap`, a sequence of scope records addressed by index), threads it    *)
(* through recursive operators that mirror the Rust functions one to one,  *)
(* and exposes the interpreter's public entry point,                       *)
(* run_ast_as_statements, as the action of the state machine: each step    *)
(* runs one statement list against the persistent root environment.        *)
(***************************************************************************)
EXTENDS Integers, Sequences, FiniteSets, TLC

VARIABLES
    heap,       \* arena of scopes: heap[i] = [parent |-> 0 or index, tab |-> name -> Value]
    out,        \* what the native callbacks were handed during the last run, in order
    rule,       \* truthiness of non-Bool values (left open by the spec)
    last,       \* the last run: the arena before and after it, and its result
    ran,        \* which run that was: <<action, input, ...>>
    history,    \* the log of runs (what ran, and its result), where a specification keeps one
    checked     \* the last run of the type checker: its result and its TypeEnvironment

vars == <<heap, out, rule, last, ran, history, checked>>

(***************************************************************************)
(* Option<T>: None is the empty sequence, Some(x) the one-element sequence *)
(***************************************************************************)
None == <<>>
Some(x) == <<x>>
IsSome(o) == Len(o) = 1
Unwrap(o) == o[1]

(***************************************************************************)
(* Values.  Every value is a record with the type tag t and the payload v; *)
(* a Number also says which of Integer and Float it is (num).  The Floats  *)
(* of the model are the whole ones.                                        *)
(***************************************************************************)
Integer(i) == [t |-> "Number", num |-> "Integer", v |-> i]
Float(x) == [t |-> "Number", num |-> "Float", v |-> x]
Bool(b) == [t |-> "Bool", num |-> "", v |-> b]
TupleVal(vs) == [t |-> "Tuple", num |-> "", v |-> vs]
FunctionVal(f) == [t |-> "Function", num |-> "", v |-> f]

get_type(val) == val.t

\* Structural equality of two values (Value's PartialEq); tags first, so
\* that payloads of different kinds are never compared.
RECURSIVE ValEq(_, _)
ValEq(a, b) ==
    IF a.t # b.t THEN FALSE
    ELSE IF a.t = "Tuple"
         THEN /\ Len(a.v) = Len(b.v)
              /\ \A i \in 1..Len(a.v) : ValEq(a.v[i], b.v[i])
    ELSE IF a.t = "Function" THEN FALSE
    ELSE IF a.t = "Number" THEN a.num = b.num /\ a.v = b.v
    ELSE a.v = b.v

\* Truthiness.  A Bool is its own truth value; for every other variant the
\* rule is one of the three candidates held in `rule`.
is_truthy(val) ==
    IF val.t = "Bool" THEN val.v
    ELSE IF rule = "all" THEN TRUE
    ELSE IF rule = "none" THEN FALSE
    ELSE IF val.t = "Number" THEN val.v # 0
    ELSE IF val.t = "Tuple" THEN Len(val.v) # 0
    ELSE TRUE

(***************************************************************************)
(* The world the evaluator acts on, and the three ways a call ends.        *)
(***************************************************************************)
World(h, o) == [heap |-> h, out |-> o]

Ok(w, v) == [w |-> w, k |-> "Ok", v |-> v]
Err(w, e) == [w |-> w, k |-> "Err", v |-> e]
Panic(w) == [w |-> w, k |-> "Panic", v |-> None]

\* RuntimeError and RuntimeErrorWithPosition
RuntimeError(kind, arg) == [kind |-> kind, arg |-> arg]
WithPos(err, pos) == [err |-> err, pos |-> pos]

\* StmtResult
SRNone == [sr |-> "None", val |-> None]
SRValue(x) == [sr |-> "Value", val |-> Some(x)]
SRBreak == [sr |-> "Break", val |-> None]
SRReturn(possible_val) == [sr |-> "Return", val |-> possible_val]

(***************************************************************************)
(* Environment: a scope table plus an optional parent link.                *)
(***************************************************************************)
ROOT == 1

EmptyTab == [n \in {} |-> None]

new_root == <<[parent |-> 0, tab |-> EmptyTab]>>

create_child(parent, w) ==
    [env |-> Len(w.heap) + 1,
     w   |-> World(Append(w.heap, [parent |-> parent, tab |-> EmptyTab]), w.out)]

declare(env, name, val, w) ==
    World([w.heap EXCEPT ![env].tab = (name :> val) @@ @], w.out)

\* The nearest scope from env outwards that declares name; 0 when none does.
RECURSIVE lookup(_, _, _)
lookup(env, name, h) ==
    IF env = 0 THEN 0
    ELSE IF name \in DOMAIN h[env].tab THEN env
    ELSE lookup(h[env].parent, name, h)

get_value(env, name, w) ==
    LET at == lookup(env, name, w.heap)
    IN  IF at = 0 THEN None ELSE Some(w.heap[at].tab[name])

set(env, name, val, w) ==
    LET at == lookup(env, name, w.heap)
    IN  IF at = 0
        THEN [found |-> FALSE, w |-> w]
        ELSE [found |-> TRUE,
              w |-> World([w.heap EXCEPT ![at].tab[name] = val], w.out)]

(***************************************************************************)
(* Functions: the two native variants and the user variant.                *)
(***************************************************************************)
CallSign(num_params, variadic, param_types) ==
    [num_params |-> num_params, variadic |-> variadic, param_types |-> param_types]

NativeVoid(call_sign, name) ==
    [kind |-> "NativeVoid", call_sign |-> call_sign, name |-> name]

NativeReturning(call_sign, name) ==
    [kind |-> "NativeReturning", call_sign |-> call_sign, name |-> name]

User(ret_type, call_sign, param_names, body, env) ==
    [kind |-> "User", ret_type |-> ret_type, call_sign |-> call_sign,
     param_names |-> param_names, body |-> body, env |-> env]

\* A native callback: host code.  It is handed the argument values, which it
\* emits (appends to `out`); a returning callback answers with their count.
native_fn(name, arg_vals, w) ==
    [w |-> World(w.heap, Append(w.out, [fn |-> name, args |-> arg_vals])),
     v |-> Integer(Len(arg_vals))]

(***************************************************************************)
(* The tree.  Every node carries its position `pos`.                       *)
(***************************************************************************)
LitInteger(i) == [lit |-> "Integer", v |-> i]
LitFloat(x) == [lit |-> "Float", v |-> x]
LitBool(b) == [lit |-> "Bool", v |-> b]

\* Value::from(Literal)
ValueFrom(x) ==
    IF x.lit = "Bool" THEN Bool(x.v)
    ELSE IF x.lit = "Float" THEN Float(x.v)
    ELSE Integer(x.v)

Literal(pos, x) == [k |-> "Literal", pos |-> pos, x |-> x]
Identifier(pos, id) == [k |-> "Identifier", pos |-> pos, id |-> id]
Tuple(pos, elems) == [k |-> "Tuple", pos |-> pos, elems |-> elems]
Unary(pos, op, expr) == [k |-> "Unary", pos |-> pos, op |-> op, expr |-> expr]
UnaryLogical(pos, op, expr) ==
    [k |-> "UnaryLogical", pos |-> pos, op |-> op, expr |-> expr]
Binary(pos, expr1, op, expr2) ==
    [k |-> "Binary", pos |-> pos, expr1 |-> expr1, op |-> op, expr2 |-> expr2]
BinaryLogical(pos, expr1, op, expr2) ==
    [k |-> "BinaryLogical", pos |-> pos, expr1 |-> expr1, op |-> op, expr2 |-> expr2]
MemberByIdx(pos, object_expr, index_expr) ==
    [k |-> "MemberByIdx", pos |-> pos, object_expr |-> object_expr,
     index_expr |-> index_expr]
FnDef(pos, maybe_id, params, body) ==
    [k |-> "FnDef", pos |-> pos, maybe_id |-> maybe_id, params |-> params,
     body |-> body, maybe_ret_type |-> None]
FnCall(pos, expr, args) == [k |-> "FnCall", pos |-> pos, expr |-> expr, args |-> args]

VarDecl(pos, name, expr) == [k |-> "VarDecl", pos |-> pos, name |-> name, expr |-> expr]
Assign(pos, id, expr) ==
    [k |-> "Assign", pos |-> pos, lhs_pos |-> pos, id |-> id, expr |-> expr]
Block(pos, statements) == [k |-> "Block", pos |-> pos, statements |-> statements]
ExprStmt(pos, expr) == [k |-> "Expr", pos |-> pos, expr |-> expr]
IfThen(pos, cond, then_block) ==
    [k |-> "IfThen", pos |-> pos, cond |-> cond, then_block |-> then_block,
     maybe_else_block |-> None]
IfThenElse(pos, cond, then_block, else_block) ==
    [k |-> "IfThen", pos |-> pos, cond |-> cond, then_block |-> then_block,
     maybe_else_block |-> Some(else_block)]
Loop(pos, block) == [k |-> "Loop", pos |-> pos, block |-> block]
Return(pos, possible_expr) == [k |-> "Return", pos |-> pos, possible_expr |-> possible_expr]
Break(pos) == [k |-> "Break", pos |-> pos]
Empty(pos) == [k |-> "Empty", pos |-> pos]

(***************************************************************************)
(* Operations (src/src/operations.rs) over Integer numbers, Bools, Tuples  *)
(* and Functions.  Each answers [k |-> "Ok", v |-> Value] or               *)
(* [k |-> "Err", v |-> RuntimeError].                                     *)
(***************************************************************************)
OpOk(v) == [k |-> "Ok", v |-> v]
OpErr(e) == [k |-> "Err", v |-> e]

\* The Number x that an operation on the Numbers a and b gives: a Float as
\* soon as one of them is a Float (mixed-mode promotion).
Promoted(a, b, x) ==
    IF a.num = "Integer" /\ b.num = "Integer" THEN Integer(x) ELSE Float(x)

BinaryTypeError(op, a, b) ==
    OpErr(RuntimeError("BinaryTypeError", <<op, get_type(a), get_type(b)>>))

unary_minus(a) ==
    IF a.t = "Number" THEN OpOk(Promoted(a, a, 0 - a.v))
    ELSE OpErr(RuntimeError("UnaryTypeError", <<"Minus", get_type(a)>>))

add(a, b) ==
    IF a.t = "Number" /\ b.t = "Number" THEN OpOk(Promoted(a, b, a.v + b.v))
    ELSE IF a.t = "Tuple" /\ b.t = "Tuple" THEN OpOk(TupleVal(a.v \o b.v))
    ELSE BinaryTypeError("Add", a, b)

subtract(a, b) ==
    IF a.t = "Number" /\ b.t = "Number" THEN OpOk(Promoted(a, b, a.v - b.v))
    ELSE BinaryTypeError("Sub", a, b)

multiply(a, b) ==
    IF a.t = "Number" /\ b.t = "Number" THEN OpOk(Promoted(a, b, a.v * b.v))
    ELSE BinaryTypeError("Mul", a, b)

less_than(a, b) ==
    IF a.t = "Number" /\ b.t = "Number" THEN OpOk(Bool(a.v < b.v))
    ELSE BinaryTypeError("LessThan", a, b)

less_than_or_equal(a, b) ==
    IF a.t = "Number" /\ b.t = "Number" THEN OpOk(Bool(a.v <= b.v))
    ELSE BinaryTypeError("LessThanOrEqual", a, b)

greater_than(a, b) ==
    IF a.t = "Number" /\ b.t = "Number" THEN OpOk(Bool(a.v > b.v))
    ELSE BinaryTypeError("GreaterThan", a, b)

greater_than_or_equal(a, b) ==
    IF a.t = "Number" /\ b.t = "Number" THEN OpOk(Bool(a.v >= b.v))
    ELSE BinaryTypeError("GreaterThanOrEqual", a, b)

(***************************************************************************)
(* The evaluator (src/src/ast_walk_interpreter.rs).                        *)
(* Every operator takes the world w and answers Ok(w', value),             *)
(* Err(w', error) or Panic(w').  Try(r, K) is the `?` of the source:       *)
(* anything but Ok leaves at once, an Ok result r goes on as K(r).         *)
(* With(x, K) names an intermediate value, as a `let` does.                *)
(***************************************************************************)
Try(r, K(_)) == IF r.k # "Ok" THEN r ELSE K(r)
With(x, K(_)) == K(x)

RECURSIVE interpret_statement(_, _, _)
RECURSIVE interpret_expr(_, _, _)
RECURSIVE interpret_expr_as_value(_, _, _)
RECURSIVE call_func(_, _, _)

\* Mutant: a Break or Return ends the sequence, as it ends a Block.
RECURSIVE statements_loop_stops(_, _, _, _, _)
statements_loop_stops(statements, i, env, w, last_result) ==
    IF i > Len(statements) THEN Ok(w, last_result)
    ELSE Try(interpret_statement(statements[i], env, w), LAMBDA r :
             IF r.v.sr = "Break" \/ r.v.sr = "Return" THEN Ok(r.w, Some(r.v))
             ELSE statements_loop_stops(statements, i + 1, env, r.w, Some(r.v)))

\* interpret_statements: the statements in order, stopping only at an error.
RECURSIVE statements_loop(_, _, _, _, _)
statements_loop(statements, i, env, w, last_result) ==
    IF i > Len(statements) THEN Ok(w, last_result)
    ELSE Try(interpret_statement(statements[i], env, w), LAMBDA r :
             statements_loop(statements, i + 1, env, r.w, Some(r.v)))

interpret_statements(statements, env, w) ==
    statements_loop(statements, 1, env, w, None)

interpret_program(program, env, w) ==
    interpret_statements(program, env, w)

stmt_VarDecl(s, env, w) ==
    Try(interpret_expr_as_value(s.expr, env, w), LAMBDA val :
        Ok(declare(env, s.name, val.v, val.w), SRNone))

\* Mutant: an assignment to an undeclared name declares it.
stmt_Assign_declaring(s, env, w) ==
    Try(interpret_expr_as_value(s.expr, env, w), LAMBDA val :
    With(set(env, s.id, val.v, val.w), LAMBDA done :
        IF ~done.found
        THEN Err(declare(env, s.id, val.v, done.w),
                 WithPos(RuntimeError("UndeclaredAssignment", s.id), s.lhs_pos))
        ELSE Ok(done.w, SRNone)))

stmt_Assign(s, env, w) ==
    Try(interpret_expr_as_value(s.expr, env, w), LAMBDA val :
    With(set(env, s.id, val.v, val.w), LAMBDA done :
        IF ~done.found
        THEN Err(done.w, WithPos(RuntimeError("UndeclaredAssignment", s.id),
                                 s.lhs_pos))
        ELSE Ok(done.w, SRNone)))

\* Mutant: a Break or Return does not stop the Block.
RECURSIVE block_loop_no_stop(_, _, _, _, _)
block_loop_no_stop(statements, i, child_env, w, last_result) ==
    IF i > Len(statements) THEN Ok(w, last_result)
    ELSE Try(interpret_statement(statements[i], child_env, w), LAMBDA r :
             block_loop_no_stop(statements, i + 1, child_env, r.w, r.v))

\* The statement loop of a Block, from statement i on.
RECURSIVE block_loop(_, _, _, _, _)
block_loop(statements, i, child_env, w, last_result) ==
    IF i > Len(statements) THEN Ok(w, last_result)
    ELSE Try(interpret_statement(statements[i], child_env, w), LAMBDA r :
             IF r.v.sr = "Break" THEN Ok(r.w, SRBreak)
             ELSE IF r.v.sr = "Return" THEN Ok(r.w, r.v)
             ELSE block_loop(statements, i + 1, child_env, r.w, r.v))

\* Mutant: a Block runs its statements in the enclosing scope.
stmt_Block_no_scope(s, env, w) ==
    block_loop(s.statements, 1, env, w, SRNone)

stmt_Block(s, env, w) ==
    With(create_child(env, w), LAMBDA child :
        block_loop(s.statements, 1, child.env, child.w, SRNone))

stmt_Expr(s, env, w) ==
    Try(interpret_expr(s.expr, env, w), LAMBDA val :
        IF ~IsSome(val.v) THEN Ok(val.w, SRNone)
        ELSE Ok(val.w, SRValue(Unwrap(val.v))))

\* What an IfThen makes of the result of the branch it ran.
branch_result(branch) ==
    Try(branch, LAMBDA result :
        IF result.v.sr = "Break" THEN Ok(result.w, SRBreak)
        ELSE IF result.v.sr = "Return" THEN Ok(result.w, result.v)
        ELSE Ok(result.w, SRNone))

stmt_IfThen(s, env, w) ==
    Try(interpret_expr_as_value(s.cond, env, w), LAMBDA val :
        IF is_truthy(val.v)
        THEN branch_result(interpret_statement(s.then_block, env, val.w))
        ELSE IF IsSome(s.maybe_else_block)
        THEN branch_result(
                 interpret_statement(Unwrap(s.maybe_else_block), env, val.w))
        ELSE Ok(val.w, SRNone))

\* Mutant: a Break that ends the Loop is handed on to the enclosing statement.
RECURSIVE loop_iter_break_propagates(_, _, _)
loop_iter_break_propagates(block, child_env, w) ==
    Try(interpret_statement(block, child_env, w), LAMBDA result :
        IF result.v.sr = "Break" THEN Ok(result.w, SRBreak)
        ELSE IF result.v.sr = "Return" THEN Ok(result.w, result.v)
        ELSE loop_iter_break_propagates(block, child_env, result.w))

\* The iterations of a Loop, all in the one child_env.
RECURSIVE loop_iter(_, _, _)
loop_iter(block, child_env, w) ==
    Try(interpret_statement(block, child_env, w), LAMBDA result :
        IF result.v.sr = "Break" THEN Ok(result.w, SRNone)
        ELSE IF result.v.sr = "Return" THEN Ok(result.w, result.v)
        ELSE loop_iter(block, child_env, result.w))

stmt_Loop(s, env, w) ==
    With(create_child(env, w), LAMBDA child :
        loop_iter(s.block, child.env, child.w))

stmt_Return(s, env, w) ==
    IF IsSome(s.possible_expr)
    THEN Try(interpret_expr_as_value(Unwrap(s.possible_expr), env, w), LAMBDA val :
             Ok(val.w, SRReturn(Some(val.v))))
    ELSE Ok(w, SRReturn(None))

interpret_statement(s, env, w) ==
    CASE s.k = "VarDecl" -> stmt_VarDecl(s, env, w)
      [] s.k = "Assign"  -> stmt_Assign(s, env, w)
      [] s.k = "Block"   -> stmt_Block(s, env, w)
      [] s.k = "Expr"    -> stmt_Expr(s, env, w)
      [] s.k = "IfThen"  -> stmt_IfThen(s, env, w)
      [] s.k = "Loop"    -> stmt_Loop(s, env, w)
      [] s.k = "Return"  -> stmt_Return(s, env, w)
      [] s.k = "Break"   -> Ok(w, SRBreak)
      [] s.k = "Empty"   -> Ok(w, SRNone)

\* Mutant: the NoneError never names the callee.
interpret_expr_as_value_anonymous(expr, env, w) ==
    Try(interpret_expr(expr, env, w), LAMBDA possible_val :
        IF ~IsSome(possible_val.v)
        THEN IF expr.k = "FnCall"
             THEN Err(possible_val.w,
                      WithPos(RuntimeError("NoneError", None), expr.pos))
             ELSE Panic(possible_val.w)
        ELSE Ok(possible_val.w, Unwrap(possible_val.v)))

interpret_expr_as_value(expr, env, w) ==
    Try(interpret_expr(expr, env, w), LAMBDA possible_val :
        IF ~IsSome(possible_val.v)
        THEN IF expr.k = "FnCall"
             THEN IF expr.expr.k = "Identifier"
                  THEN Err(possible_val.w,
                           WithPos(RuntimeError("NoneError", Some(expr.expr.id)),
                                   expr.pos))
                  ELSE Err(possible_val.w,
                           WithPos(RuntimeError("NoneError", None), expr.pos))
             ELSE Panic(possible_val.w)
        ELSE Ok(possible_val.w, Unwrap(possible_val.v)))

expr_Identifier(e, env, w) ==
    With(get_value(env, e.id, w), LAMBDA got :
        IF IsSome(got) THEN Ok(w, Some(Unwrap(got)))
        ELSE Err(w, WithPos(RuntimeError("ReferenceError", e.id), e.pos)))

\* The element loop of a Tuple expression, from element i on.
RECURSIVE tuple_elems(_, _, _, _, _)
tuple_elems(elems, i, env, w, values) ==
    IF i > Len(elems) THEN Ok(w, Some(TupleVal(values)))
    ELSE Try(interpret_expr_as_value(elems[i], env, w), LAMBDA val :
             tuple_elems(elems, i + 1, env, val.w, Append(values, val.v)))

expr_Unary(e, env, w) ==
    Try(interpret_expr_as_value(e.expr, env, w), LAMBDA val :
    With(unary_minus(val.v), LAMBDA r :
        IF r.k = "Ok" THEN Ok(val.w, Some(r.v))
        ELSE Err(val.w, WithPos(r.v, e.pos))))

expr_UnaryLogical(e, env, w) ==
    Try(interpret_expr_as_value(e.expr, env, w), LAMBDA val :
        Ok(val.w, Some(Bool(~is_truthy(val.v)))))

binary_op(op, val1, val2) ==
    CASE op = "Add" -> add(val1, val2)
      [] op = "Sub" -> subtract(val1, val2)
      [] op = "Mul" -> multiply(val1, val2)
      [] op = "Lt"  -> less_than(val1, val2)
      [] op = "Lte" -> less_than_or_equal(val1, val2)
      [] op = "Gt"  -> greater_than(val1, val2)
      [] op = "Gte" -> greater_than_or_equal(val1, val2)
      [] op = "Eq"  -> OpOk(Bool(ValEq(val1, val2)))

expr_Binary(e, env, w) ==
    Try(interpret_expr_as_value(e.expr1, env, w), LAMBDA val1 :
    Try(interpret_expr_as_value(e.expr2, env, val1.w), LAMBDA val2 :
    With(binary_op(e.op, val1.v, val2.v), LAMBDA retval :
        IF retval.k = "Ok" THEN Ok(val2.w, Some(retval.v))
        ELSE Err(val2.w, WithPos(retval.v, e.pos)))))

\* Mutant: both operands are always evaluated.
expr_BinaryLogical_eager(e, env, w) ==
    Try(interpret_expr_as_value(e.expr1, env, w), LAMBDA val1 :
    Try(interpret_expr_as_value(e.expr2, env, val1.w), LAMBDA val2 :
        IF e.op = "And"
        THEN Ok(val2.w, Some(Bool(is_truthy(val1.v) /\ is_truthy(val2.v))))
        ELSE Ok(val2.w, Some(Bool(is_truthy(val1.v) \/ is_truthy(val2.v))))))

expr_BinaryLogical(e, env, w) ==
    Try(interpret_expr_as_value(e.expr1, env, w), LAMBDA val1 :
        IF e.op = "And" /\ ~is_truthy(val1.v) THEN Ok(val1.w, Some(Bool(FALSE)))
        ELSE IF e.op = "Or" /\ is_truthy(val1.v) THEN Ok(val1.w, Some(Bool(TRUE)))
        ELSE Try(interpret_expr_as_value(e.expr2, env, val1.w), LAMBDA val2 :
                 Ok(val2.w, Some(Bool(is_truthy(val2.v))))))

\* Mutant: a negative index counts from the end of the Tuple.
member_by_idx_from_end(e, object, index) ==
    IF object.t = "Tuple"
    THEN IF index.t = "Number" /\ index.num = "Integer"
         THEN IF index.v < 0
              THEN IF Len(object.v) + index.v + 1 \in 1..Len(object.v)
                   THEN OpOk(object.v[Len(object.v) + index.v + 1])
                   ELSE OpErr(WithPos(RuntimeError("IndexOutOfBounds", index.v), e.pos))
              ELSE IF index.v + 1 \in 1..Len(object.v)
                   THEN OpOk(object.v[index.v + 1])
                   ELSE OpErr(WithPos(RuntimeError("IndexOutOfBounds", index.v), e.pos))
         ELSE OpErr(WithPos(RuntimeError("NonIntegralSubscript", get_type(index)),
                            e.index_expr.pos))
    ELSE OpErr(WithPos(RuntimeError("SubscriptOnNonSubscriptable", get_type(object)),
                       e.object_expr.pos))

\* The match on (object, index) of a MemberByIdx expression.
member_by_idx(e, object, index) ==
    IF object.t = "Tuple"
    THEN IF index.t = "Number" /\ index.num = "Integer"
         THEN IF index.v < 0
              THEN OpErr(WithPos(RuntimeError("IndexOutOfBounds", index.v), e.pos))
              ELSE IF index.v + 1 \in 1..Len(object.v)
                   THEN OpOk(object.v[index.v + 1])
                   ELSE OpErr(WithPos(RuntimeError("IndexOutOfBounds", index.v), e.pos))
         ELSE OpErr(WithPos(RuntimeError("NonIntegralSubscript", get_type(index)),
                            e.index_expr.pos))
    ELSE OpErr(WithPos(RuntimeError("SubscriptOnNonSubscriptable", get_type(object)),
                       e.object_expr.pos))

expr_MemberByIdx(e, env, w) ==
    Try(interpret_expr_as_value(e.object_expr, env, w), LAMBDA object :
    Try(interpret_expr_as_value(e.index_expr, env, object.w), LAMBDA index :
    With(member_by_idx(e, object.v, index.v), LAMBDA r :
        IF r.k = "Ok" THEN Ok(index.w, Some(r.v))
        ELSE Err(index.w, r.v))))

expr_FnDef(e, env, w) ==
    With(FunctionVal(User(e.maybe_ret_type,
                          CallSign(Len(e.params), FALSE,
                                   [i \in 1..Len(e.params) |-> e.params[i][2]]),
                          [i \in 1..Len(e.params) |-> e.params[i][1]],
                          e.body, env)),
         LAMBDA func_val :
        IF IsSome(e.maybe_id)
        THEN Ok(declare(env, Unwrap(e.maybe_id), func_val, w), Some(func_val))
        ELSE Ok(w, Some(func_val)))

\* The argument loop of a call, from argument i on.
RECURSIVE call_args(_, _, _, _, _)
call_args(args, i, env, w, arg_vals) ==
    IF i > Len(args) THEN Ok(w, arg_vals)
    ELSE Try(interpret_expr_as_value(args[i], env, w), LAMBDA val :
             call_args(args, i + 1, env, val.w, Append(arg_vals, val.v)))

\* Mutant: only too many arguments are rejected.
check_args_compat_at_most(arg_vals, call_sign, expr) ==
    IF ~call_sign.variadic /\ call_sign.num_params < Len(arg_vals)
    THEN IF expr.k = "Identifier"
         THEN OpErr(WithPos(RuntimeError("ArgumentLength", Some(expr.id)), expr.pos))
         ELSE OpErr(WithPos(RuntimeError("ArgumentLength", None), expr.pos))
    ELSE OpOk(None)

check_args_compat(arg_vals, call_sign, expr) ==
    IF ~call_sign.variadic /\ call_sign.num_params # Len(arg_vals)
    THEN IF expr.k = "Identifier"
         THEN OpErr(WithPos(RuntimeError("ArgumentLength", Some(expr.id)), expr.pos))
         ELSE OpErr(WithPos(RuntimeError("ArgumentLength", None), expr.pos))
    ELSE OpOk(None)

\* Mutant: the argument count is validated before the arguments are
\* evaluated.
call_function_count_first(e, env, func, w) ==
    With(check_args_compat(e.args, func.call_sign, e), LAMBDA compat :
        IF compat.k # "Ok" THEN Err(w, compat.v)
        ELSE Try(call_args(e.args, 1, env, w, <<>>), LAMBDA arg_vals :
             With(call_func(func, arg_vals.v, arg_vals.w), LAMBDA call_func_result :
                 IF call_func_result.k = "Err"
                 THEN Err(call_func_result.w, WithPos(call_func_result.v, e.pos))
                 ELSE call_func_result)))

\* Mutant: dynamic scoping, the parameter scope is a child of the
\* caller's scope.
call_function_dynamic(e, env, func, w) ==
    Try(call_args(e.args, 1, env, w, <<>>), LAMBDA arg_vals :
    With(check_args_compat(arg_vals.v, func.call_sign, e), LAMBDA compat :
        IF compat.k # "Ok" THEN Err(arg_vals.w, compat.v)
        ELSE With(call_func(IF func.kind = "User" THEN [func EXCEPT !.env = env]
                            ELSE func,
                            arg_vals.v, arg_vals.w), LAMBDA call_func_result :
                 IF call_func_result.k = "Err"
                 THEN Err(call_func_result.w, WithPos(call_func_result.v, e.pos))
                 ELSE call_func_result)))

\* A call once the callee is known to be the function func.
call_function(e, env, func, w) ==
    Try(call_args(e.args, 1, env, w, <<>>), LAMBDA arg_vals :
    With(check_args_compat(arg_vals.v, func.call_sign, e), LAMBDA compat :
        IF compat.k # "Ok" THEN Err(arg_vals.w, compat.v)
        ELSE With(call_func(func, arg_vals.v, arg_vals.w), LAMBDA call_func_result :
                 IF call_func_result.k = "Err"
                 THEN Err(call_func_result.w, WithPos(call_func_result.v, e.pos))
                 ELSE call_func_result)))

expr_FnCall(e, env, w) ==
    Try(interpret_expr_as_value(e.expr, env, w), LAMBDA val :
        IF val.v.t # "Function"
        THEN IF e.expr.k = "Identifier"
             THEN Err(val.w,
                      WithPos(RuntimeError("CallToNonFunction",
                                           <<Some(e.expr.id), get_type(val.v)>>),
                              e.expr.pos))
             ELSE Err(val.w,
                      WithPos(RuntimeError("CallToNonFunction",
                                           <<None, get_type(val.v)>>),
                              e.expr.pos))
        ELSE call_function(e, env, val.v.v, val.w))

interpret_expr(e, env, w) ==
    CASE e.k = "Literal"       -> Ok(w, Some(ValueFrom(e.x)))
      [] e.k = "Identifier"    -> expr_Identifier(e, env, w)
      [] e.k = "Tuple"         -> tuple_elems(e.elems, 1, env, w, <<>>)
      [] e.k = "Unary"         -> expr_Unary(e, env, w)
      [] e.k = "UnaryLogical"  -> expr_UnaryLogical(e, env, w)
      [] e.k = "Binary"        -> expr_Binary(e, env, w)
      [] e.k = "BinaryLogical" -> expr_BinaryLogical(e, env, w)
      [] e.k = "MemberByIdx"   -> expr_MemberByIdx(e, env, w)
      [] e.k = "FnDef"         -> expr_FnDef(e, env, w)
      [] e.k = "FnCall"        -> expr_FnCall(e, env, w)

\* The parameter bindings of a user call: param_names zipped with arg_vals.
RECURSIVE bind_params(_, _, _, _, _)
bind_params(param_names, arg_vals, i, function_env, w) ==
    IF i > Len(param_names) \/ i > Len(arg_vals) THEN w
    ELSE bind_params(param_names, arg_vals, i + 1, function_env,
                     declare(function_env, param_names[i], arg_vals[i], w))

\* Mutant: a body that falls through with a value returns that value.
call_result_last_value(result) ==
    IF result.k = "Err"
    THEN Err(result.w, RuntimeError("InsideFunctionCall", result.v))
    ELSE IF result.k = "Panic" THEN result
    ELSE IF result.v.sr = "Return" \/ result.v.sr = "Value"
         THEN IF IsSome(result.v.val)
              THEN Ok(result.w, Some(Unwrap(result.v.val)))
              ELSE Ok(result.w, None)
    ELSE Ok(result.w, None)

\* Mutant: an error that is already that of a call is handed on as it is.
call_result_wrapped_once(result) ==
    IF result.k = "Err"
    THEN IF result.v.err.kind = "InsideFunctionCall"
         THEN Err(result.w, result.v.err)
         ELSE Err(result.w, RuntimeError("InsideFunctionCall", result.v))
    ELSE IF result.k = "Panic" THEN result
    ELSE IF result.v.sr = "Return"
         THEN IF IsSome(result.v.val)
              THEN Ok(result.w, Some(Unwrap(result.v.val)))
              ELSE Ok(result.w, None)
    ELSE Ok(result.w, None)

\* What a user call makes of the outcome of its body.
call_result(result) ==
    IF result.k = "Err"
    THEN Err(result.w, RuntimeError("InsideFunctionCall", result.v))
    ELSE IF result.k = "Panic" THEN result
    ELSE IF result.v.sr = "Return"
         THEN IF IsSome(result.v.val)
              THEN Ok(result.w, Some(Unwrap(result.v.val)))
              ELSE Ok(result.w, None)
    ELSE Ok(result.w, None)

\* Mutant: each call works on a private copy of the captured scope.
call_func_User_copied_env(func, arg_vals, w) ==
    With(create_child(Len(w.heap) + 1,
                      World(Append(w.heap, w.heap[func.env]), w.out)),
         LAMBDA function_env :
    With(create_child(function_env.env,
                      bind_params(func.param_names, arg_vals, 1,
                                  function_env.env, function_env.w)),
         LAMBDA inner_env :
        call_result(interpret_statement(func.body, inner_env.env, inner_env.w))))

call_func_User(func, arg_vals, w) ==
    With(create_child(func.env, w), LAMBDA function_env :
    With(create_child(function_env.env,
                      bind_params(func.param_names, arg_vals, 1,
                                  function_env.env, function_env.w)),
         LAMBDA inner_env :
        call_result(interpret_statement(func.body, inner_env.env, inner_env.w))))

call_func(func, arg_vals, w) ==
    CASE func.kind = "NativeVoid" ->
             Ok(native_fn(func.name, arg_vals, w).w, None)
      [] func.kind = "NativeReturning" ->
             With(native_fn(func.name, arg_vals, w), LAMBDA r : Ok(r.w, Some(r.v)))
      [] func.kind = "User" -> call_func_User(func, arg_vals, w)

(***************************************************************************)
(* The type checker (src/src/typechecker.rs): a static pass over the tree  *)
(* with the types Number, Bool and Any.  Its tree has calls by name,       *)
(* FunctionCall(id, args), and no Return, Tuple, subscript or function     *)
(* definition.                                                             *)
(***************************************************************************)
FunctionCall(pos, id, args) == [k |-> "FunctionCall", pos |-> pos, id |-> id, args |-> args]

\* Type::from(Literal)
TypeFrom(x) == IF x.lit = "Bool" THEN "Bool" ELSE "Number"

\* An issue with its position: an InterpreterError or a
\* MultipleTypesFromBranchWarning.
Issue(kind, arg, pos) == [kind |-> kind, arg |-> arg, pos |-> pos]

\* The builtin registry, by name: a void builtin, a returning builtin.
get_builtin_from_name(id) ==
    IF id = "nv" THEN Some("Void")
    ELSE IF id = "nr" THEN Some("Returning")
    ELSE None

\* TypeEnvironment: the stack of symbol tables, innermost last.  `order` is
\* the order in which a HashSet of names is iterated (any order; it is that
\* of the hasher).  `declared` is auxiliary: the log of the declarations
\* made, each with the number of scopes open when it was made; nothing
\* reads it.
TypeEnvironment(symbol_tables, order, declared) ==
    [symbol_tables |-> symbol_tables, order |-> order, declared |-> declared]

TypeEnvironment_new(order) == TypeEnvironment(<<>>, order, <<>>)

start_scope(env) == [env EXCEPT !.symbol_tables = Append(@, EmptyTab)]

end_scope(env) ==
    IF Len(env.symbol_tables) = 0 THEN env
    ELSE [env EXCEPT !.symbol_tables = SubSeq(@, 1, Len(@) - 1)]

\* declare, on an environment with a scope open (where none is open,
\* last_mut().unwrap() panics: see the callers)
TypeEnvironment_declare(env, id, typ) ==
    [env EXCEPT !.symbol_tables[Len(env.symbol_tables)] = (id :> typ) @@ @,
                !.declared = Append(@, <<id, Len(env.symbol_tables)>>)]

\* The innermost table, from table i down, that holds identifier; 0 if none.
RECURSIVE holder(_, _, _)
holder(symbol_tables, identifier, i) ==
    IF i = 0 THEN 0
    ELSE IF identifier \in DOMAIN symbol_tables[i] THEN i
    ELSE holder(symbol_tables, identifier, i - 1)

TypeEnvironment_set(env, identifier, typ) ==
    IF holder(env.symbol_tables, identifier, Len(env.symbol_tables)) = 0
    THEN [found |-> FALSE, env |-> env]
    ELSE [found |-> TRUE,
          env |-> [env EXCEPT
                     !.symbol_tables[holder(env.symbol_tables, identifier,
                                            Len(env.symbol_tables))][identifier] = typ]]

TypeEnvironment_get_type(env, identifier) ==
    IF holder(env.symbol_tables, identifier, Len(env.symbol_tables)) = 0 THEN None
    ELSE Some(env.symbol_tables[holder(env.symbol_tables, identifier,
                                       Len(env.symbol_tables))][identifier])

\* The names of all tables, as the sequence in which the set is iterated.
get_all_keys(env) ==
    SelectSeq(env.order,
              LAMBDA name : \E i \in 1..Len(env.symbol_tables) :
                                name \in DOMAIN env.symbol_tables[i])

\* Results of check_expr: Ok(Some type), Ok(None), Err(issues), or a panic.
ChkOk(possible_type) == [k |-> "Ok", v |-> possible_type]
ChkErr(issues) == [k |-> "Err", v |-> issues]
ChkPanic == [k |-> "Panic", v |-> <<>>]

\* Results of check_statement: Ok(()) or Err(issues), with the environment
\* as the call leaves it.
Done(env, issues) ==
    [env |-> env, k |-> IF Len(issues) = 0 THEN "Ok" ELSE "Err", v |-> issues]
Panicked(env) == [env |-> env, k |-> "Panic", v |-> <<>>]

check_unary_minus_for_type(typ) ==
    IF typ = "Number" THEN OpOk("Number")
    ELSE IF typ = "Any" THEN OpOk("Any")
    ELSE OpErr([kind |-> "UnaryTypeError", arg |-> <<"Minus", typ>>])

check_binary_arithmetic_for_types(op, t1, t2) ==
    IF t1 = "Number" /\ t2 = "Number" THEN OpOk("Number")
    ELSE IF t1 = "Any" \/ t2 = "Any" THEN OpOk("Any")
    ELSE OpErr([kind |-> "BinaryTypeError", arg |-> <<op, t1, t2>>])

check_binary_comparison_for_types(op, t1, t2) ==
    IF t1 = "Number" /\ t2 = "Number" THEN OpOk("Bool")
    ELSE IF t1 = "Any" \/ t2 = "Any" THEN OpOk("Any")
    ELSE OpErr([kind |-> "BinaryTypeError", arg |-> <<op, t1, t2>>])

\* The NoneError of a void call used as a value.
NoneErrorAt(expr) == Issue("NoneError", expr.id, expr.pos)

\* `let checked_type = match check_expr(..)`: the type a sub-expression is
\* taken to have, with the issues it adds; Any when it failed or is void.
checked_type(result, expr) ==
    IF result.k = "Panic" THEN [k |-> "Panic", typ |-> "Any", issues |-> <<>>]
    ELSE IF result.k = "Err" THEN [k |-> "Ok", typ |-> "Any", issues |-> result.v]
    ELSE IF IsSome(result.v)
    THEN [k |-> "Ok", typ |-> Unwrap(result.v), issues |-> <<>>]
    ELSE IF expr.k = "FunctionCall"
    THEN [k |-> "Ok", typ |-> "Any", issues |-> <<NoneErrorAt(expr)>>]
    ELSE [k |-> "Ok", typ |-> "Any", issues |-> <<>>]

RECURSIVE check_expr(_, _)

chk_Identifier(expr, env) ==
    With(TypeEnvironment_get_type(env, expr.id), LAMBDA t :
        IF IsSome(t) THEN ChkOk(Some(Unwrap(t)))
        ELSE ChkErr(<<Issue("ReferenceError", expr.id, expr.pos)>>))

chk_UnaryExpression(e, env) ==
    With(check_expr(e.expr, env), LAMBDA r :
        IF r.k # "Ok" THEN r
        ELSE IF ~IsSome(r.v)
        THEN IF e.expr.k = "FunctionCall" THEN ChkErr(<<NoneErrorAt(e.expr)>>)
             ELSE ChkPanic
        ELSE With(check_unary_minus_for_type(Unwrap(r.v)), LAMBDA t :
                 IF t.k = "Ok" THEN ChkOk(Some(t.v))
                 ELSE ChkErr(<<Issue(t.v.kind, t.v.arg, e.expr.pos)>>)))

chk_UnaryLogicalExpression(e, env) ==
    With(check_expr(e.expr, env), LAMBDA r :
        IF r.k # "Ok" THEN r
        ELSE IF ~IsSome(r.v) /\ e.expr.k = "FunctionCall"
        THEN ChkErr(<<NoneErrorAt(e.expr)>>)
        ELSE ChkOk(Some("Bool")))

binary_check(op, t1, t2) ==
    IF op \in {"Add", "Sub", "Mul", "Div", "FloorDiv"}
    THEN check_binary_arithmetic_for_types(op, t1, t2)
    ELSE IF op \in {"Lt", "Lte", "Gt", "Gte"}
    THEN check_binary_comparison_for_types(op, t1, t2)
    ELSE OpOk("Bool")

chk_BinaryExpression(e, env) ==
    With(checked_type(check_expr(e.expr1, env), e.expr1), LAMBDA c1 :
    With(checked_type(check_expr(e.expr2, env), e.expr2), LAMBDA c2 :
        IF c1.k = "Panic" \/ c2.k = "Panic" THEN ChkPanic
        ELSE With(binary_check(e.op, c1.typ, c2.typ), LAMBDA result :
                 IF result.k = "Err"
                 THEN ChkErr(c1.issues \o c2.issues
                             \o <<Issue(result.v.kind, result.v.arg, e.pos)>>)
                 ELSE IF Len(c1.issues \o c2.issues) = 0 THEN ChkOk(Some(result.v))
                 ELSE ChkErr(c1.issues \o c2.issues))))

chk_BinaryLogicalExpression(e, env) ==
    With(checked_type(check_expr(e.expr1, env), e.expr1), LAMBDA c1 :
    With(checked_type(check_expr(e.expr2, env), e.expr2), LAMBDA c2 :
        IF c1.k = "Panic" \/ c2.k = "Panic" THEN ChkPanic
        ELSE IF Len(c1.issues \o c2.issues) = 0 THEN ChkOk(Some("Bool"))
        ELSE ChkErr(c1.issues \o c2.issues)))

\* The argument loop of a FunctionCall, from argument i on: the issues of
\* all arguments.
RECURSIVE check_args(_, _, _, _)
check_args(args, i, env, issues) ==
    IF i > Len(args) THEN ChkErr(issues)
    ELSE With(checked_type(check_expr(args[i], env), args[i]), LAMBDA c :
             IF c.k = "Panic" THEN ChkPanic
             ELSE check_args(args, i + 1, env, issues \o c.issues))

chk_FunctionCall(e, env) ==
    With(get_builtin_from_name(e.id), LAMBDA possible_wrapped_func :
        IF ~IsSome(possible_wrapped_func)
        THEN ChkErr(<<Issue("ReferenceError", e.id, e.pos)>>)
        ELSE With(check_args(e.args, 1, env, <<>>), LAMBDA r :
                 IF r.k = "Panic" THEN r
                 ELSE IF Len(r.v) = 0
                 THEN IF Unwrap(possible_wrapped_func) = "Returning"
                      THEN ChkOk(Some("Any"))
                      ELSE ChkOk(None)
                 ELSE r))

check_expr(expr, env) ==
    CASE expr.k = "Literal"       -> ChkOk(Some(TypeFrom(expr.x)))
      [] expr.k = "Identifier"    -> chk_Identifier(expr, env)
      [] expr.k = "Unary"         -> chk_UnaryExpression(expr, env)
      [] expr.k = "UnaryLogical"  -> chk_UnaryLogicalExpression(expr, env)
      [] expr.k = "Binary"        -> chk_BinaryExpression(expr, env)
      [] expr.k = "BinaryLogical" -> chk_BinaryLogicalExpression(expr, env)
      [] expr.k = "FunctionCall"  -> chk_FunctionCall(expr, env)

RECURSIVE check_statement(_, _)

RECURSIVE check_statements_loop(_, _, _, _)
check_statements_loop(ast, i, env, issues) ==
    IF i > Len(ast) THEN Done(env, issues)
    ELSE With(check_statement(ast[i], env), LAMBDA r :
             IF r.k = "Panic" THEN r
             ELSE check_statements_loop(ast, i + 1, r.env, issues \o r.v))

check_statements(ast, env) == check_statements_loop(ast, 1, env, <<>>)

chk_VariableDeclaration(s, env) ==
    With(checked_type(check_expr(s.expr, env), s.expr), LAMBDA c :
        IF c.k = "Panic" \/ Len(env.symbol_tables) = 0 THEN Panicked(env)
        ELSE Done(TypeEnvironment_declare(env, s.name, c.typ), c.issues))

chk_Assignment(s, env) ==
    With(checked_type(check_expr(s.expr, env), s.expr), LAMBDA c :
        IF c.k = "Panic" THEN Panicked(env)
        ELSE With(TypeEnvironment_set(env, s.id, c.typ), LAMBDA done :
                 IF ~done.found
                 THEN Done(done.env,
                           c.issues \o <<Issue("UndeclaredAssignment", s.id, s.lhs_pos)>>)
                 ELSE Done(done.env, c.issues)))

chk_Block(s, env) ==
    With(check_statements(s.statements, start_scope(env)), LAMBDA r :
        IF r.k = "Panic" THEN r
        ELSE Done(end_scope(r.env), r.v))

chk_Expression(s, env) ==
    With(check_expr(s.expr, env), LAMBDA r :
        IF r.k = "Panic" THEN Panicked(env)
        ELSE IF r.k = "Err" THEN Done(env, r.v)
        ELSE Done(env, <<>>))

\* Whether the condition's result makes the conditional return at once
\* (`return Err(vec![NoneError])`): a void FunctionCall.
returns_NoneError(if_expr_result, if_expr) ==
    /\ if_expr_result.k = "Ok"
    /\ ~IsSome(if_expr_result.v)
    /\ if_expr.k = "FunctionCall"

\* The issues the condition's result adds to those of the conditional.
cond_issues(if_expr_result) ==
    IF if_expr_result.k = "Err" THEN if_expr_result.v ELSE <<>>

chk_IfThen(s, env) ==
    With(check_expr(s.cond, env), LAMBDA if_expr_result :
        IF if_expr_result.k = "Panic" THEN Panicked(env)
        ELSE IF returns_NoneError(if_expr_result, s.cond)
        THEN Done(env, <<NoneErrorAt(s.cond)>>)
        ELSE With(check_statement(s.then_block, env), LAMBDA t :
                 IF t.k = "Panic" THEN t
                 ELSE Done(t.env, cond_issues(if_expr_result) \o t.v)))

\* The merge loop of an IfThenElse over names, from name i on.
RECURSIVE merge_loop(_, _, _, _, _, _, _)
merge_loop(names, i, then_env, else_env, env, issues, pos) ==
    IF i > Len(names) THEN Done(env, issues)
    ELSE IF ~IsSome(TypeEnvironment_get_type(then_env, names[i]))
            \/ ~IsSome(TypeEnvironment_get_type(else_env, names[i]))
    THEN Panicked(env)
    ELSE IF Unwrap(TypeEnvironment_get_type(else_env, names[i]))
                # Unwrap(TypeEnvironment_get_type(then_env, names[i]))
    THEN merge_loop(names, i + 1, then_env, else_env,
                    TypeEnvironment_set(env, names[i], "Any").env,
                    Append(issues,
                           Issue("MultipleTypesFromBranchWarning", names[i], pos)),
                    pos)
    ELSE merge_loop(names, i + 1, then_env, else_env,
                    TypeEnvironment_set(env, names[i],
                        Unwrap(TypeEnvironment_get_type(then_env, names[i]))).env,
                    issues, pos)

\* then_env and else_env are clones of env; the log of declarations goes
\* from one to the next.
chk_IfThenElse(s, env) ==
    With(check_expr(s.cond, env), LAMBDA if_expr_result :
        IF if_expr_result.k = "Panic" THEN Panicked(env)
        ELSE IF returns_NoneError(if_expr_result, s.cond)
        THEN Done(env, <<NoneErrorAt(s.cond)>>)
        ELSE With(check_statement(s.then_block, env), LAMBDA t :
                 IF t.k = "Panic" THEN t
                 ELSE With(check_statement(Unwrap(s.maybe_else_block),
                                           [env EXCEPT !.declared = t.env.declared]),
                           LAMBDA el :
                          IF el.k = "Panic" THEN el
                          ELSE merge_loop(get_all_keys(t.env), 1, t.env, el.env,
                                          [env EXCEPT !.declared = el.env.declared],
                                          cond_issues(if_expr_result) \o t.v \o el.v,
                                          s.pos))))

chk_Loop(s, env) ==
    With(check_statement(s.block, env), LAMBDA r :
        IF r.k = "Panic" THEN r ELSE Done(r.env, r.v))

check_statement(s, env) ==
    CASE s.k = "VarDecl" -> chk_VariableDeclaration(s, env)
      [] s.k = "Assign"  -> chk_Assignment(s, env)
      [] s.k = "Block"   -> chk_Block(s, env)
      [] s.k = "Expr"    -> chk_Expression(s, env)
      [] s.k = "IfThen"  ->
             IF IsSome(s.maybe_else_block) THEN chk_IfThenElse(s, env)
             ELSE chk_IfThen(s, env)
      [] s.k = "Loop"    -> chk_Loop(s, env)
      [] s.k = "Break"   -> Done(env, <<>>)
      [] s.k = "Empty"   -> Done(env, <<>>)

check_program(ast, order) ==
    With(check_statements(ast, start_scope(TypeEnvironment_new(order))), LAMBDA result :
        IF result.k = "Panic" THEN result
        ELSE Done(end_scope(result.env), result.v))

(***************************************************************************)
(* The state machine: an AstWalkInterpreter and the runs made on it.       *)
(***************************************************************************)
Rules == {"all", "none", "nonzero"}

\* Scopes are reference counted (Rc<RefCell<Environment>>): a scope lives
\* as long as a child scope, a function value or the interpreter holds it.
RECURSIVE Refs(_)
Refs(val) ==
    IF val.t = "Function"
    THEN IF val.v.kind = "User" THEN {val.v.env} ELSE {}
    ELSE IF val.t = "Tuple" THEN UNION {Refs(val.v[i]) : i \in 1..Len(val.v)}
    ELSE {}

ScopeRefs(h, i) ==
    (IF h[i].parent = 0 THEN {} ELSE {h[i].parent})
        \cup UNION {Refs(h[i].tab[n]) : n \in DOMAIN h[i].tab}

RECURSIVE Reach(_, _)
Reach(h, held) ==
    IF UNION {ScopeRefs(h, i) : i \in held} \subseteq held THEN held
    ELSE Reach(h, held \cup UNION {ScopeRefs(h, i) : i \in held})

\* What a result handed to the caller holds.
ResultRefs(res) ==
    IF res.k = "Ok" /\ IsSome(res.v) /\ IsSome(Unwrap(res.v).val)
    THEN Refs(Unwrap(Unwrap(res.v).val))
    ELSE {}

\* The arena once the scopes nobody holds any more are dropped (the arena
\* is cut back to the last scope still held).
drop_unheld(h, res) ==
    SubSeq(h, 1, CHOOSE m \in Reach(h, {ROOT} \cup ResultRefs(res)) :
                     \A i \in Reach(h, {ROOT} \cup ResultRefs(res)) : i <= m)

Finished(r) ==
    [before |-> heap, after |-> r.w.heap, res |-> [k |-> r.k, v |-> r.v]]

\* Interpreter::run_ast_as_statements on the persistent root_env.  A panic
\* kills the process: nothing runs after it.
run_ast_as_statements(statements) ==
    /\ last.res.k # "Panic"
    /\ \E r \in {interpret_statements(statements, ROOT, World(heap, <<>>))} :
           /\ heap' = drop_unheld(r.w.heap, [k |-> r.k, v |-> r.v])
           /\ out' = r.w.out
           /\ last' = Finished(r)
    /\ UNCHANGED <<rule, checked>>

\* AstWalkInterpreter::new under the truthiness rule tr, the root scope
\* holding the host's builtins.
New(tr, builtins) ==
    /\ heap = <<[parent |-> 0, tab |-> builtins]>>
    /\ out = <<>>
    /\ rule = tr
    /\ last = [before |-> heap, after |-> heap, res |-> [k |-> "Ok", v |-> None]]
    /\ ran = <<"New">>
    /\ history = <<>>
    /\ checked = Done(TypeEnvironment_new(<<>>), <<>>)

\* How the last run ended.
Yields(res, sr) == res.k = "Ok" /\ IsSome(res.v) /\ Unwrap(res.v).sr = sr

YieldsNone(res) == Yields(res, "None")

YieldsValue(res, val) ==
    /\ Yields(res, "Value")
    /\ ValEq(Unwrap(Unwrap(res.v).val), val)

YieldsReturn(res, possible_val) ==
    /\ Yields(res, "Return")
    /\ IsSome(Unwrap(res.v).val) = IsSome(possible_val)
    /\ IsSome(possible_val) => ValEq(Unwrap(Unwrap(res.v).val), Unwrap(possible_val))

Fails(res, kind) == res.k = "Err" /\ res.v.err.kind = kind

Declared(name, env, h) == lookup(env, name, h) # 0

\* The runs made on one interpreter, where a specification looks at single
\* programs.
MaxRuns == 1

\* The binding of name in scope env of arena h is the value val.
Bound(name, env, h, val) ==
    /\ name \in DOMAIN h[env].tab
    /\ ValEq(h[env].tab[name], val)

(***************************************************************************)
(* Closures: a counter factory.                                            *)
(*   let mk = fn() { let n = 0; return fn() { n = n + 1; return n; }; };   *)
(*   let c = mk();      c();                                               *)
(***************************************************************************)
CounterNames == <<"c1", "c2">>

CounterBody ==
    Block(20, <<Assign(21, "n", Binary(22, Identifier(23, "n"), "Add",
                                       Literal(24, LitInteger(1)))),
                Return(25, Some(Identifier(26, "n")))>>)

MkBody ==
    Block(10, <<VarDecl(11, "n", Literal(12, LitInteger(0))),
                Return(13, Some(FnDef(14, None, <<>>, CounterBody)))>>)

DefMkProg == <<VarDecl(1, "mk", FnDef(2, None, <<>>, MkBody))>>
MakeCounterProg(c) == <<VarDecl(3, c, FnCall(4, Identifier(5, "mk"), <<>>))>>
CallCounterProg(c) == <<ExprStmt(6, FnCall(7, Identifier(8, c), <<>>))>>

MaxClosureRuns == 5

DefMk ==
    /\ Len(history) < MaxClosureRuns
    /\ run_ast_as_statements(DefMkProg)
    /\ ran' = <<"DefMk", "mk">>
    /\ history' = Append(history, [ran |-> ran', res |-> last'.res])

MakeCounter(c) ==
    /\ Len(history) < MaxClosureRuns
    /\ run_ast_as_statements(MakeCounterProg(c))
    /\ ran' = <<"MakeCounter", c>>
    /\ history' = Append(history, [ran |-> ran', res |-> last'.res])

CallCounter(c) ==
    /\ Len(history) < MaxClosureRuns
    /\ run_ast_as_statements(CallCounterProg(c))
    /\ ran' = <<"CallCounter", c>>
    /\ history' = Append(history, [ran |-> ran', res |-> last'.res])

InitClosure == New("nonzero", EmptyTab)

NextClosure ==
    \/ DefMk
    \/ \E i \in 1..Len(CounterNames) : MakeCounter(CounterNames[i])
    \/ \E i \in 1..Len(CounterNames) : CallCounter(CounterNames[i])

SpecClosure == InitClosure /\ [][NextClosure]_vars

\* Whether run i of the history was the action op on counter c.
Ran(i, op, c) == history[i].ran[1] = op /\ history[i].ran[2] = c

\* The last successful run before i that made counter c (0 if none), and
\* the number of calls of c among runs from..to.
LastMade(c, i) ==
    LET made == {j \in 1..(i - 1) : Ran(j, "MakeCounter", c) /\ history[j].res.k = "Ok"}
    IN  IF made = {} THEN 0 ELSE CHOOSE j \in made : \A m \in made : m <= j

Calls(c, from, to) ==
    Cardinality({j \in from..to : Ran(j, "CallCounter", c)})

\* C1: the k-th call of one closure returned by mk() returns k, whatever
\* is done with other closures of mk() in between, and the count is the
\* value of the binding n in the closure's captured scope, a scope of the
\* mk() call that has long exited: closures of separate mk() calls count
\* independently.
C1_ClosureCounts ==
    \A ci \in 1..Len(CounterNames) :
        LET c == CounterNames[ci]
            n == Len(history)
        IN  /\ \A i \in 1..n :
                   (Ran(i, "CallCounter", c) /\ LastMade(c, i) > 0)
                   => YieldsValue(history[i].res,
                                  Integer(Calls(c, LastMade(c, i) + 1, i)))
            /\ LastMade(c, n + 1) > 0
               => LET f == heap[ROOT].tab[c].v
                  IN  /\ f.env > ROOT
                      /\ Bound("n", f.env, heap,
                               Integer(Calls(c, LastMade(c, n + 1) + 1, n)))

\* A second call of c1 has returned 2 after c2 was made and called in between.
C1_Witness ==
    /\ Len(history) = 5
    /\ Ran(2, "MakeCounter", "c1")
    /\ Ran(3, "CallCounter", "c1")
    /\ Ran(4, "MakeCounter", "c2")
    /\ Ran(5, "CallCounter", "c1")
    /\ YieldsValue(history[5].res, Integer(2))

(***************************************************************************)
(* Scopes: declarations and assignments of x inside nested Blocks, and     *)
(* assignments to names that may be declared nowhere.                      *)
(***************************************************************************)
MaxInner == 2       \* statements inside the innermost Block
MaxDepth == 2       \* Blocks around them

ScopeVals == {7, 8}
ScopeNames == {"x", "y"}

\* One statement on x, <<decl, v>>: a declaration (decl) or an assignment
\* of the literal v.
ScopeOps == BOOLEAN \X ScopeVals
ScopeOpSeqs == UNION {[1..n -> ScopeOps] : n \in 1..MaxInner}

OpStmts(ops) ==
    [i \in 1..Len(ops) |->
        IF ops[i][1]
        THEN VarDecl(30 + i, "x", Literal(40 + i, LitInteger(ops[i][2])))
        ELSE Assign(30 + i, "x", Literal(40 + i, LitInteger(ops[i][2])))]

\* statements inside depth Blocks (depth 0: the statements themselves)
RECURSIVE Nest(_, _)
Nest(statements, depth) ==
    IF depth = 0 THEN statements
    ELSE <<Block(50 + depth, Nest(statements, depth - 1))>>

\* { ops } at the top level, the outer x being root's
BlockProg(ops, depth) == Nest(OpStmts(ops), depth)

\* { let x = v0; { ops } x }: the outer x is the enclosing Block's
NestedProg(v0, ops, depth) ==
    <<Block(60, <<VarDecl(61, "x", Literal(62, LitInteger(v0)))>>
                \o Nest(OpStmts(ops), depth)
                \o <<ExprStmt(63, Identifier(64, "x"))>>)>>

DeclareProg(name, v) == <<VarDecl(70, name, Literal(71, LitInteger(v)))>>

\* The right-hand sides of the assignments tried on a possibly undeclared name
RhsKinds == {"literal", "other", "fn_same", "fn_other"}
Rhs(kind, name) ==
    CASE kind = "literal"  -> Literal(80, LitInteger(7))
      [] kind = "other"    -> Identifier(81, IF name = "x" THEN "y" ELSE "x")
      [] kind = "fn_same"  -> FnDef(82, Some(name), <<>>, Block(83, <<>>))
      [] kind = "fn_other" -> FnDef(84, Some("g"), <<>>, Block(85, <<>>))

\* name = rhs; inside depth Blocks
AssignProg(name, kind, depth) == Nest(<<Assign(90, name, Rhs(kind, name))>>, depth)

DeclareTop(name, v) ==
    /\ run_ast_as_statements(DeclareProg(name, v))
    /\ ran' = <<"DeclareTop", name, v>>
    /\ UNCHANGED history

RunBlock(ops, depth) ==
    /\ run_ast_as_statements(BlockProg(ops, depth))
    /\ ran' = <<"RunBlock", ops, depth>>
    /\ UNCHANGED history

RunNested(v0, ops, depth) ==
    /\ run_ast_as_statements(NestedProg(v0, ops, depth))
    /\ ran' = <<"RunNested", ops, depth, v0>>
    /\ UNCHANGED history

\* Function values assigned inside Blocks keep those Blocks' scopes alive;
\* assignments are tried while the arena is no larger than MaxHeld scopes.
MaxHeld == 3

RunAssign(name, kind, depth) ==
    /\ Len(heap) <= MaxHeld
    /\ run_ast_as_statements(AssignProg(name, kind, depth))
    /\ ran' = <<"RunAssign", name, kind, depth>>
    /\ UNCHANGED history

InitScope == New("nonzero", EmptyTab)

NextScope ==
    \/ \E name \in ScopeNames, v \in ScopeVals : DeclareTop(name, v)
    \/ \E ops \in ScopeOpSeqs, depth \in 1..MaxDepth : RunBlock(ops, depth)
    \/ \E v0 \in ScopeVals, ops \in ScopeOpSeqs, depth \in 1..MaxDepth :
           RunNested(v0, ops, depth)

SpecScope == InitScope /\ [][NextScope]_vars

NextAssign ==
    \/ \E name \in ScopeNames, v \in ScopeVals : DeclareTop(name, v)
    \/ \E name \in ScopeNames, kind \in RhsKinds, depth \in 0..MaxDepth :
           RunAssign(name, kind, depth)

SpecAssign == InitScope /\ [][NextAssign]_vars

\* The outer x after a Block that runs ops: the assignments that come
\* before the first declaration of x in the Block reach the outer x.
RECURSIVE OuterAfter(_, _, _)
OuterAfter(old, ops, i) ==
    IF i > Len(ops) THEN old
    ELSE IF ops[i][1] THEN old
    ELSE OuterAfter(Integer(ops[i][2]), ops, i + 1)

SameTab(a, b) ==
    /\ DOMAIN a = DOMAIN b
    /\ \A n \in DOMAIN a : ValEq(a[n], b[n])

\* C2: a VarDecl of x inside a Block leaves the outer x as it was once the
\* Block has exited; an Assign to x inside the Block that no declaration of
\* x in the Block precedes changes the outer x, and the change is there
\* after the Block.  The outer x is root's (RunBlock) or an enclosing
\* Block's (RunNested).
C2_Shadowing ==
    /\ (ran[1] = "RunBlock" /\ Declared("x", ROOT, last.before))
       => /\ last.res.k = "Ok"
          /\ Bound("x", ROOT, heap,
                   OuterAfter(last.before[ROOT].tab["x"], ran[2], 1))
    /\ ran[1] = "RunNested"
       => /\ YieldsValue(last.res, OuterAfter(Integer(ran[4]), ran[2], 1))
          /\ Bound("x", Len(last.before) + 1, last.after,
                   OuterAfter(Integer(ran[4]), ran[2], 1))
          /\ SameTab(heap[ROOT].tab, last.before[ROOT].tab)

\* An inner declaration has left root's x = 7 alone although the Block then
\* assigned 8 to its own x, and an inner assignment has changed an
\* enclosing Block's x.
C2_Witness ==
    \/ /\ ran = <<"RunBlock", <<<<TRUE, 8>>, <<FALSE, 8>>>>, 2>>
       /\ Bound("x", ROOT, last.before, Integer(7))
       /\ Bound("x", ROOT, heap, Integer(7))
    \/ /\ ran = <<"RunNested", <<<<FALSE, 8>>>>, 1, 7>>
       /\ YieldsValue(last.res, Integer(8))

\* Whether the last run was name = rhs with name declared in no scope from
\* the current one out to the root.
UndeclaredAssign ==
    /\ ran[1] = "RunAssign"
    /\ ~Declared(ran[2], ROOT, last.before)

\* The run failed with UndeclaredAssignment(name), and name is declared in
\* no scope of the chain of the statement (the innermost of depth Blocks).
FailedUndeclared ==
    /\ Fails(last.res, "UndeclaredAssignment")
    /\ last.res.v.err.arg = ran[2]
    /\ Len(last.after) = Len(last.before) + ran[4]
    /\ ~Declared(ran[2], Len(last.after), last.after)
    /\ ~Declared(ran[2], ROOT, heap)

\* C3 as stated: every assignment to a name declared nowhere fails with
\* UndeclaredAssignment(name) and leaves the name undeclared.
C3_AsStated == UndeclaredAssign => FailedUndeclared

\* Whether the right-hand side evaluates to a value (from the statement's
\* scope) without itself declaring name.
RhsPlain ==
    \/ ran[3] = "literal"
    \/ ran[3] = "fn_other"
    \/ /\ ran[3] = "other"
       /\ Declared(IF ran[2] = "x" THEN "y" ELSE "x", ROOT, last.before)

\* C3 (amended): an assignment whose right-hand side evaluates to a value
\* and does not itself declare the name fails with UndeclaredAssignment(name)
\* when no scope from the current one out to the root declares the name,
\* and the name is still declared in no scope of the chain afterwards.
C3_NeverDeclares == (UndeclaredAssign /\ RhsPlain) => FailedUndeclared

\* y = 7 inside two Blocks, y declared nowhere, has failed.
C3_Witness ==
    /\ ran = <<"RunAssign", "y", "literal", 2>>
    /\ ~Declared("y", ROOT, last.before)
    /\ Fails(last.res, "UndeclaredAssignment")

(***************************************************************************)
(* Logical operators: a and b, a or b, where evaluating b leaves a trace.  *)
(*   let hit = false; fn bump(v) { hit = true; return v; };  a and bump(b) *)
(*   a and undefinedFn()                                                   *)
(***************************************************************************)
LogicOps == {"And", "Or"}

LogicLits == <<LitBool(FALSE), LitBool(TRUE), LitInteger(0), LitInteger(1)>>

BumpDef ==
    FnDef(103, Some("bump"), <<<<"v", None>>>>,
          Block(104, <<Assign(105, "hit", Literal(106, LitBool(TRUE))),
                       Return(107, Some(Identifier(108, "v")))>>))

\* The right operand: bi = 0 is the call of a function declared nowhere,
\* bi > 0 is bump(LogicLits[bi]).
RightOperand(bi) ==
    IF bi = 0
    THEN FnCall(112, Identifier(113, "undefinedFn"), <<>>)
    ELSE FnCall(114, Identifier(115, "bump"), <<Literal(116, LogicLits[bi])>>)

LogicProg(op, ai, bi) ==
    <<VarDecl(100, "hit", Literal(101, LitBool(FALSE))),
      ExprStmt(102, BumpDef),
      ExprStmt(109, BinaryLogical(110, Literal(111, LogicLits[ai]), op,
                                  RightOperand(bi)))>>

RunLogic(op, ai, bi) ==
    /\ Len(history) < MaxRuns
    /\ run_ast_as_statements(LogicProg(op, ai, bi))
    /\ ran' = <<"RunLogic", op, ai, bi>>
    /\ history' = Append(history, [ran |-> ran', res |-> last'.res])

InitLogic == \E tr \in Rules : New(tr, EmptyTab)

NextLogic ==
    \E op \in LogicOps, ai \in 1..Len(LogicLits), bi \in 0..Len(LogicLits) :
        RunLogic(op, ai, bi)

SpecLogic == InitLogic /\ [][NextLogic]_vars

\* Whether the left operand of the last RunLogic decides the result alone.
LeftDecides ==
    IF ran[2] = "And" THEN ~is_truthy(ValueFrom(LogicLits[ran[3]]))
    ELSE is_truthy(ValueFrom(LogicLits[ran[3]]))

\* C4: the right operand of `a and b` is evaluated exactly when a is truthy,
\* that of `a or b` exactly when a is falsy; a left operand that decides
\* gives Bool(false) for and, Bool(true) for or, with no error and no
\* effect of the right operand, even when that is a call of an undeclared
\* function; otherwise the result is the truthiness of b as a Bool.
C4_ShortCircuit ==
    ran[1] = "RunLogic"
    => IF LeftDecides
       THEN /\ YieldsValue(last.res, Bool(ran[2] = "Or"))
            /\ Bound("hit", ROOT, heap, Bool(FALSE))
       ELSE IF ran[4] = 0
       THEN /\ Fails(last.res, "ReferenceError")
            /\ last.res.v.err.arg = "undefinedFn"
       ELSE /\ YieldsValue(last.res, Bool(is_truthy(ValueFrom(LogicLits[ran[4]]))))
            /\ Bound("hit", ROOT, heap, Bool(TRUE))

\* false and undefinedFn() has yielded Bool(false); so has false and bump(true),
\* without bump being called.
C4_Witness ==
    \/ /\ ran = <<"RunLogic", "And", 1, 0>>
       /\ YieldsValue(last.res, Bool(FALSE))
    \/ /\ ran = <<"RunLogic", "And", 1, 2>>
       /\ Bound("hit", ROOT, heap, Bool(FALSE))

(***************************************************************************)
(* Control flow through Blocks and conditionals.  A Block of items, each   *)
(* item a statement that says it ran (t = t + (p,)) followed by a          *)
(* primitive statement inside a nest of Blocks and conditionals.           *)
(***************************************************************************)
MaxItems == 2       \* items of the Block
MaxWrap == 2        \* Blocks and conditionals around an item's primitive

CtlPrims == {"Empty", "Decl", "Value", "Break", "ReturnNone", "ReturnSome"}
Shapes == {"block", "then", "else"}
WrapSeqs == UNION {[1..n -> Shapes] : n \in 0..MaxWrap}

\* An item is <<primitive, wrap>>.
Items == CtlPrims \X WrapSeqs
ItemSeqs == UNION {[1..n -> Items] : n \in 0..MaxItems}

\* The primitive statement of item p; what it carries is 10 p.
PrimStmt(prim, p) ==
    CASE prim = "Empty"      -> Empty(200 + p)
      [] prim = "Decl"       -> VarDecl(200 + p, "d", Literal(210 + p, LitInteger(10 * p)))
      [] prim = "Value"      -> ExprStmt(200 + p, Literal(210 + p, LitInteger(10 * p)))
      [] prim = "Break"      -> Break(200 + p)
      [] prim = "ReturnNone" -> Return(200 + p, None)
      [] prim = "ReturnSome" ->
             Return(200 + p, Some(Literal(210 + p, LitInteger(10 * p))))

\* stmt inside the nest wrap, outermost shape first: { stmt },
\* if true { stmt }, if false { } else { stmt }.
RECURSIVE Wrapped(_, _)
Wrapped(stmt, wrap) ==
    IF Len(wrap) = 0 THEN stmt
    ELSE IF Head(wrap) = "block"
    THEN Block(220, <<Wrapped(stmt, Tail(wrap))>>)
    ELSE IF Head(wrap) = "then"
    THEN IfThen(221, Literal(222, LitBool(TRUE)),
                Block(223, <<Wrapped(stmt, Tail(wrap))>>))
    ELSE IfThenElse(224, Literal(225, LitBool(FALSE)), Block(226, <<>>),
                    Block(227, <<Wrapped(stmt, Tail(wrap))>>))

\* t = t + (p,)
Mark(p) ==
    Assign(230 + p, "t",
           Binary(240 + p, Identifier(250 + p, "t"), "Add",
                  Tuple(260 + p, <<Literal(270 + p, LitInteger(p))>>)))

ItemStmts(items) ==
    [j \in 1..(2 * Len(items)) |->
        IF j % 2 = 1 THEN Mark((j + 1) \div 2)
        ELSE Wrapped(PrimStmt(items[j \div 2][1], j \div 2), items[j \div 2][2])]

\* let t = (); { items }
ControlProg(items) ==
    <<VarDecl(280, "t", Tuple(281, <<>>)), Block(282, ItemStmts(items))>>

RunControl(items) ==
    /\ Len(history) < MaxRuns
    /\ run_ast_as_statements(ControlProg(items))
    /\ ran' = <<"RunControl", items>>
    /\ history' = Append(history, [ran |-> ran', res |-> last'.res])

InitControl == New("nonzero", EmptyTab)

NextControl == \E items \in ItemSeqs : RunControl(items)

SpecControl == InitControl /\ [][NextControl]_vars

Stops(prim) == prim \in {"Break", "ReturnNone", "ReturnSome"}

\* The number of items that run: up to and including the first one whose
\* primitive is a Break or a Return.
RECURSIVE RunCount(_, _)
RunCount(items, p) ==
    IF p > Len(items) THEN Len(items)
    ELSE IF Stops(items[p][1]) THEN p
    ELSE RunCount(items, p + 1)

\* The number of Blocks among the first n items' nests.
RECURSIVE NestBlocks(_, _)
NestBlocks(items, n) ==
    IF n = 0 THEN 0 ELSE Len(items[n][2]) + NestBlocks(items, n - 1)

\* The position of the last of the first n items that declares d in the
\* Block's own scope (0 if none does).
RECURSIVE LastDecl(_, _)
LastDecl(items, n) ==
    IF n = 0 THEN 0
    ELSE IF items[n][1] = "Decl" /\ Len(items[n][2]) = 0 THEN n
    ELSE LastDecl(items, n - 1)

\* Whether the statement of an item that does not stop yields Value: a
\* conditional yields None, a Block what its last statement yields.
RECURSIVE NestYieldsValue(_, _)
NestYieldsValue(prim, wrap) ==
    IF Len(wrap) = 0 THEN prim = "Value"
    ELSE IF Head(wrap) = "block" THEN NestYieldsValue(prim, Tail(wrap))
    ELSE FALSE

\* The result of the Block of the last RunControl, n of its items having run.
BlockYields(items, n) ==
    IF n = 0 THEN YieldsNone(last.res)
    ELSE IF items[n][1] = "Break" THEN Yields(last.res, "Break")
    ELSE IF items[n][1] = "ReturnNone" THEN YieldsReturn(last.res, None)
    ELSE IF items[n][1] = "ReturnSome"
    THEN YieldsReturn(last.res, Some(Integer(10 * n)))
    ELSE IF NestYieldsValue(items[n][1], items[n][2])
    THEN YieldsValue(last.res, Integer(10 * n))
    ELSE YieldsNone(last.res)

\* C5: the statements of a Block run in order in one new child scope, up
\* to and including the first that yields Break or Return, whatever Blocks
\* and conditionals that Break or Return comes out of; the Block yields
\* that Break or Return unchanged, and otherwise what its last statement
\* yields (None when it is empty).
C5_BlockControl ==
    ran[1] = "RunControl"
    => /\ Bound("t", ROOT, heap,
                TupleVal([p \in 1..RunCount(ran[2], 1) |-> Integer(p)]))
       /\ BlockYields(ran[2], RunCount(ran[2], 1))
       /\ Len(last.after) =
              Len(last.before) + 1 + NestBlocks(ran[2], RunCount(ran[2], 1))
       /\ last.after[Len(last.before) + 1].parent = ROOT
       /\ IF LastDecl(ran[2], RunCount(ran[2], 1)) = 0
          THEN DOMAIN last.after[Len(last.before) + 1].tab = {}
          ELSE Bound("d", Len(last.before) + 1, last.after,
                     Integer(10 * LastDecl(ran[2], RunCount(ran[2], 1))))

\* A Return(10) out of a Block inside a conditional has stopped the Block
\* before its second item, and a Break out of two conditionals likewise.
C5_Witness ==
    \/ /\ ran = <<"RunControl", <<<<"ReturnSome", <<"then", "block">>>>,
                                  <<"Value", <<>>>>>>>>
       /\ YieldsReturn(last.res, Some(Integer(10)))
       /\ Bound("t", ROOT, heap, TupleVal(<<Integer(1)>>))
    \/ /\ ran = <<"RunControl", <<<<"Break", <<"else", "then">>>>,
                                  <<"Decl", <<>>>>>>>>
       /\ Yields(last.res, "Break")

(***************************************************************************)
(* Loops.                                                                  *)
(*   let i = 0; let j = 0;                                                 *)
(*   loop { i = i + step; [loop { j = j + 1; break; }]                     *)
(*          if i >= n { exit } tail }                                      *)
(***************************************************************************)
MaxIters == 4       \* the threshold n runs over 1..MaxIters
MaxStep == 2        \* the step runs over 1..MaxStep

LoopExits == {"Break", "ReturnNone", "ReturnSome", "Error"}
LoopTails == {"Empty", "Value"}

ExitStmt(exit) ==
    CASE exit = "Break"      -> Break(300)
      [] exit = "ReturnNone" -> Return(301, None)
      [] exit = "ReturnSome" -> Return(302, Some(Identifier(303, "i")))
      [] exit = "Error"      -> ExprStmt(304, Identifier(305, "undeclared"))

InnerLoop ==
    Loop(310, Block(311, <<Assign(312, "j", Binary(313, Identifier(314, "j"), "Add",
                                                   Literal(315, LitInteger(1)))),
                           Break(316)>>))

LoopBody(n, step, exit, tail, nested) ==
    <<Assign(320, "i", Binary(321, Identifier(322, "i"), "Add",
                              Literal(323, LitInteger(step))))>>
    \o (IF nested THEN <<InnerLoop>> ELSE <<>>)
    \o <<IfThen(324, Binary(325, Identifier(326, "i"), "Gte",
                            Literal(327, LitInteger(n))),
                Block(328, <<ExitStmt(exit)>>))>>
    \o <<IF tail = "Value" THEN ExprStmt(329, Identifier(330, "i")) ELSE Empty(331)>>

LoopProg(n, step, exit, tail, nested) ==
    <<VarDecl(340, "i", Literal(341, LitInteger(0))),
      VarDecl(342, "j", Literal(343, LitInteger(0))),
      Loop(344, Block(345, LoopBody(n, step, exit, tail, nested)))>>

\* loop { break; }
BareLoopProg == <<Loop(350, Block(351, <<Break(352)>>))>>

RunLoop(n, step, exit, tail, nested) ==
    /\ Len(history) < MaxRuns
    /\ run_ast_as_statements(LoopProg(n, step, exit, tail, nested))
    /\ ran' = <<"RunLoop", n, step, exit, tail, nested>>
    /\ history' = Append(history, [ran |-> ran', res |-> last'.res])

RunBareLoop ==
    /\ Len(history) < MaxRuns
    /\ run_ast_as_statements(BareLoopProg)
    /\ ran' = <<"RunBareLoop", 0>>
    /\ history' = Append(history, [ran |-> ran', res |-> last'.res])

InitLoop == New("nonzero", EmptyTab)

NextLoop ==
    \/ \E n \in 1..MaxIters, step \in 1..MaxStep, exit \in LoopExits,
          tail \in LoopTails, nested \in BOOLEAN :
           RunLoop(n, step, exit, tail, nested)
    \/ RunBareLoop

SpecLoop == InitLoop /\ [][NextLoop]_vars

\* The iterations of the last RunLoop: the least k with k step >= n.
Iterations == (ran[2] + ran[3] - 1) \div ran[3]

\* The new scopes of the last run whose parent is the scope env.
ChildrenOf(env) ==
    {s \in (Len(last.before) + 1)..Len(last.after) : last.after[s].parent = env}

LoopYields ==
    CASE ran[4] = "Break"      -> YieldsNone(last.res)
      [] ran[4] = "ReturnNone" -> YieldsReturn(last.res, None)
      [] ran[4] = "ReturnSome" ->
             YieldsReturn(last.res, Some(Integer(Iterations * ran[3])))
      [] ran[4] = "Error"      -> Fails(last.res, "ReferenceError")

\* C6: a Loop repeats its body until the body yields Break, Return or an
\* error, a body that yields None or a Value starting the next iteration;
\* Break ends the Loop with None and is not handed on to an enclosing
\* Loop, Return(v) is handed on as Return(v); the Loop makes one child
\* scope, in which every iteration's body Block opens its own;
\* loop { break; } ends after one iteration with None.
C6_Loop ==
    /\ ran[1] = "RunLoop"
       => /\ LoopYields
          /\ Bound("i", ROOT, last.after, Integer(Iterations * ran[3]))
          /\ Bound("j", ROOT, last.after, Integer(IF ran[6] THEN Iterations ELSE 0))
          /\ Cardinality(ChildrenOf(ROOT)) = 1
          /\ Cardinality(ChildrenOf(Len(last.before) + 1)) = Iterations
    /\ ran[1] = "RunBareLoop"
       => /\ YieldsNone(last.res)
          /\ Cardinality(ChildrenOf(ROOT)) = 1
          /\ Cardinality(ChildrenOf(Len(last.before) + 1)) = 1
          /\ Len(last.after) = Len(last.before) + 2

\* A Loop around a Loop that breaks has gone through three iterations and
\* then ended with None on its own Break.
C6_Witness ==
    /\ ran = <<"RunLoop", 3, 1, "Break", "Value", TRUE>>
    /\ YieldsNone(last.res)
    /\ Bound("j", ROOT, last.after, Integer(3))

(***************************************************************************)
(* Calls of a user function whose body ends in each of the ways a body     *)
(* can end.                                                                *)
(*   let entered = false; fn f() { entered = true; <ending> };             *)
(*   f();      let r = f();      loop { i = i + 1; f(); if i >= 2 {break} }*)
(***************************************************************************)
CallContexts == {"stmt", "value", "loop"}

\* fn f() { entered = true; <prim inside wrap> }
EndingDef(prim, wrap) ==
    FnDef(400, Some("f"), <<>>,
          Block(401, <<Assign(402, "entered", Literal(403, LitBool(TRUE))),
                       Wrapped(PrimStmt(prim, 5), wrap)>>))

CallOfF(pos) == FnCall(pos, Identifier(pos + 1, "f"), <<>>)

CallSite(context) ==
    CASE context = "stmt"  -> <<ExprStmt(410, CallOfF(411))>>
      [] context = "value" -> <<VarDecl(413, "r", CallOfF(414))>>
      [] context = "loop"  ->
             <<VarDecl(416, "i", Literal(417, LitInteger(0))),
               Loop(418, Block(419,
                   <<Assign(420, "i", Binary(421, Identifier(422, "i"), "Add",
                                             Literal(423, LitInteger(1)))),
                     ExprStmt(424, CallOfF(425)),
                     IfThen(427, Binary(428, Identifier(429, "i"), "Gte",
                                        Literal(430, LitInteger(2))),
                            Block(431, <<Break(432)>>))>>))>>

CallProg(prim, wrap, context) ==
    <<VarDecl(440, "entered", Literal(441, LitBool(FALSE))),
      ExprStmt(442, EndingDef(prim, wrap))>>
    \o CallSite(context)

RunCall(prim, wrap, context) ==
    /\ Len(history) < MaxRuns
    /\ run_ast_as_statements(CallProg(prim, wrap, context))
    /\ ran' = <<"RunCall", prim, wrap, context>>
    /\ history' = Append(history, [ran |-> ran', res |-> last'.res])

InitCall == New("nonzero", EmptyTab)

NextCall ==
    \E prim \in CtlPrims, wrap \in WrapSeqs, context \in CallContexts :
        RunCall(prim, wrap, context)

SpecCall == InitCall /\ [][NextCall]_vars

\* C7: a call of a user function yields v exactly when the body ends with
\* Return(Some v), out of whatever Blocks and conditionals; a body that
\* ends with Return(None), falls through with None or a Value, or ends on
\* a stray Break makes the call void: void as a statement, a NoneError
\* naming f where a value is required, and no end to a Loop of the caller.
C7_CallResult ==
    ran[1] = "RunCall"
    => /\ Bound("entered", ROOT, last.after, Bool(TRUE))
       /\ ran[4] = "stmt"
          => IF ran[2] = "ReturnSome" THEN YieldsValue(last.res, Integer(50))
             ELSE YieldsNone(last.res)
       /\ ran[4] = "value"
          => IF ran[2] = "ReturnSome"
             THEN last.res.k = "Ok" /\ Bound("r", ROOT, last.after, Integer(50))
             ELSE /\ Fails(last.res, "NoneError")
                  /\ last.res.v.err.arg = Some("f")
                  /\ Declared("r", ROOT, last.after) = Declared("r", ROOT, last.before)
                  /\ Declared("r", ROOT, last.before)
                     => Bound("r", ROOT, last.after, last.before[ROOT].tab["r"])
       /\ ran[4] = "loop"
          => YieldsNone(last.res) /\ Bound("i", ROOT, last.after, Integer(2))

\* A body that falls through with the value 50 has made the call void, and
\* a body that ends on a Break has not ended the caller's Loop.
C7_Witness ==
    \/ /\ ran = <<"RunCall", "Value", <<>>, "stmt">>
       /\ YieldsNone(last.res)
    \/ /\ ran = <<"RunCall", "Break", <<"then">>, "loop">>
       /\ Bound("i", ROOT, last.after, Integer(2))

(***************************************************************************)
(* Arity: a user function of n parameters and a builtin with a call        *)
(* signature of n parameters, variadic or not, called with m arguments.    *)
(***************************************************************************)
MaxParams == 2
MaxArgs == 3

ParamNames == <<"p1", "p2", "p3", "p4">>
NativeKinds == {"NativeVoid", "NativeReturning"}

ArgExprs(m) == [i \in 1..m |-> Literal(500 + i, LitInteger(i))]

\* let entered = false; fn f(p1, .., pn) { entered = true; }; f(1, .., m)
UserCallProg(n, m) ==
    <<VarDecl(510, "entered", Literal(511, LitBool(FALSE))),
      ExprStmt(512, FnDef(513, Some("f"), [i \in 1..n |-> <<ParamNames[i], None>>],
                          Block(514, <<Assign(515, "entered",
                                              Literal(516, LitBool(TRUE)))>>))),
      ExprStmt(517, FnCall(518, Identifier(519, "f"), ArgExprs(m)))>>

\* native(1, .., m)
NativeCallProg(m) ==
    <<ExprStmt(520, FnCall(521, Identifier(522, "native"), ArgExprs(m)))>>

\* The registry of builtins: one builtin, `native`.
Builtins(kind, n, variadic) ==
    "native" :> FunctionVal(
        IF kind = "NativeVoid"
        THEN NativeVoid(CallSign(n, variadic, [i \in 1..n |-> None]), "native")
        ELSE NativeReturning(CallSign(n, variadic, [i \in 1..n |-> None]), "native"))

CallUser(n, m) ==
    /\ Len(history) < MaxRuns
    /\ run_ast_as_statements(UserCallProg(n, m))
    /\ ran' = <<"CallUser", n, m>>
    /\ history' = Append(history, [ran |-> ran', res |-> last'.res])

CallNative(m) ==
    /\ Len(history) < MaxRuns
    /\ run_ast_as_statements(NativeCallProg(m))
    /\ ran' = <<"CallNative", m, 0>>
    /\ history' = Append(history, [ran |-> ran', res |-> last'.res])

InitArity ==
    \E kind \in NativeKinds, n \in 0..MaxParams, variadic \in BOOLEAN :
        New("nonzero", Builtins(kind, n, variadic))

NextArity ==
    \/ \E n \in 0..MaxParams, m \in 0..MaxArgs : CallUser(n, m)
    \/ \E m \in 0..MaxArgs : CallNative(m)

SpecArity == InitArity /\ [][NextArity]_vars

\* The call signature of the builtin.
NativeSign == last.before[ROOT].tab["native"].v.call_sign

\* C8: a call with m arguments of a non-variadic function of n parameters
\* fails with ArgumentLength when m # n, and then neither the body nor the
\* native callback runs; with m = n the call goes through; a variadic
\* signature takes every m.
C8_Arity ==
    /\ ran[1] = "CallUser"
       => IF ran[2] = ran[3]
          THEN /\ YieldsNone(last.res)
               /\ Bound("entered", ROOT, last.after, Bool(TRUE))
          ELSE /\ Fails(last.res, "ArgumentLength")
               /\ Bound("entered", ROOT, last.after, Bool(FALSE))
    /\ ran[1] = "CallNative"
       => IF NativeSign.variadic \/ NativeSign.num_params = ran[2]
          THEN /\ last.res.k = "Ok"
               /\ Len(out) = 1
               /\ Len(out[1].args) = ran[2]
          ELSE /\ Fails(last.res, "ArgumentLength")
               /\ out = <<>>

\* A function of two parameters has refused one argument and three
\* arguments without its body running.
C8_Witness ==
    /\ ran[1] = "CallUser"
    /\ ran[2] = 2
    /\ ran[3] \in {1, 3}
    /\ Fails(last.res, "ArgumentLength")
    /\ Bound("entered", ROOT, last.after, Bool(FALSE))

(***************************************************************************)
(* Indexing: obj[idx] for objects and indices of every kind.               *)
(***************************************************************************)
MaxTupleLen == 3    \* the Tuples are (), (10), (10, 20), (10, 20, 30)
MaxIdx == 6         \* the Integer indices run over -MaxIdx..MaxIdx

\* <<kind, n>>: the Tuple of length n, or the Integer 5, the Float 5.0, ...
ObjInputs ==
    ({"Tuple"} \X (0..MaxTupleLen))
        \cup ({"Integer", "Float", "Bool", "Function"} \X {0})
\* <<kind, i>>: the Integer i, the Float i.0, or false, (0), fn() {}
IdxInputs ==
    ({"Integer"} \X ((0 - MaxIdx)..MaxIdx))
        \cup ({"Float"} \X {0, 1})
        \cup ({"Bool", "Tuple", "Function"} \X {0})

\* The type of the values of a kind, as errors name it.
TypeOf(kind) == IF kind \in {"Integer", "Float"} THEN "Number" ELSE kind

ObjExpr(kind, n) ==
    CASE kind = "Tuple"    ->
             Tuple(600, [i \in 1..n |-> Literal(600 + i, LitInteger(10 * i))])
      [] kind = "Integer"  -> Literal(610, LitInteger(5))
      [] kind = "Float"    -> Literal(614, LitFloat(5))
      [] kind = "Bool"     -> Literal(611, LitBool(TRUE))
      [] kind = "Function" -> FnDef(612, None, <<>>, Block(613, <<>>))

\* A negative index is written with the unary minus.
IdxExpr(kind, i) ==
    CASE kind = "Integer"  ->
             IF i < 0 THEN Unary(620, "Neg", Literal(621, LitInteger(0 - i)))
             ELSE Literal(622, LitInteger(i))
      [] kind = "Float"    -> Literal(628, LitFloat(i))
      [] kind = "Bool"     -> Literal(623, LitBool(FALSE))
      [] kind = "Tuple"    -> Tuple(624, <<Literal(625, LitInteger(0))>>)
      [] kind = "Function" -> FnDef(626, None, <<>>, Block(627, <<>>))

IndexProg(obj, idx) ==
    <<ExprStmt(630, MemberByIdx(631, ObjExpr(obj[1], obj[2]), IdxExpr(idx[1], idx[2])))>>

RunIndex(obj, idx) ==
    /\ Len(history) < MaxRuns
    /\ run_ast_as_statements(IndexProg(obj, idx))
    /\ ran' = <<"RunIndex", obj, idx>>
    /\ history' = Append(history, [ran |-> ran', res |-> last'.res])

InitIndex == New("nonzero", EmptyTab)

NextIndex == \E obj \in ObjInputs, idx \in IdxInputs : RunIndex(obj, idx)

SpecIndex == InitIndex /\ [][NextIndex]_vars

\* C9: obj[idx] is SubscriptOnNonSubscriptable when obj is no Tuple,
\* whatever idx is; NonIntegralSubscript when obj is a Tuple and idx no
\* Integer; for a Tuple of length n and an Integer i, element i when
\* 0 <= i < n and IndexOutOfBounds(i) when i < 0 or i >= n.
C9_Index ==
    ran[1] = "RunIndex"
    => IF ran[2][1] # "Tuple"
       THEN /\ Fails(last.res, "SubscriptOnNonSubscriptable")
            /\ last.res.v.err.arg = TypeOf(ran[2][1])
       ELSE IF ran[3][1] # "Integer"
       THEN /\ Fails(last.res, "NonIntegralSubscript")
            /\ last.res.v.err.arg = TypeOf(ran[3][1])
       ELSE IF 0 <= ran[3][2] /\ ran[3][2] < ran[2][2]
       THEN YieldsValue(last.res, Integer(10 * (ran[3][2] + 1)))
       ELSE /\ Fails(last.res, "IndexOutOfBounds")
            /\ last.res.v.err.arg = ran[3][2]

\* (10, 20, 30)[1] has yielded 20, [5] IndexOutOfBounds(5) and [-1]
\* IndexOutOfBounds(-1).
C9_Witness ==
    \/ /\ ran = <<"RunIndex", <<"Tuple", 3>>, <<"Integer", 1>>>>
       /\ YieldsValue(last.res, Integer(20))
    \/ /\ ran = <<"RunIndex", <<"Tuple", 3>>, <<"Integer", 5>>>>
       /\ Fails(last.res, "IndexOutOfBounds")
    \/ /\ ran = <<"RunIndex", <<"Tuple", 3>>, <<"Integer", -1>>>>
       /\ Fails(last.res, "IndexOutOfBounds")

(***************************************************************************)
(* Value-required sites: an expression that is or is not void, inside a    *)
(* nest of expressions, at each kind of statement.                         *)
(*   fn v() {}; fn g() { return 1; }; fn id(a) { return a; }; let z = 0;   *)
(***************************************************************************)
MaxNest == 2        \* expressions around the innermost one

StmtSites == {"expr", "cond", "init", "assign", "return"}
ExprSites == {"neg", "not", "add_l", "add_r", "and_l", "and_r",
              "idx_obj", "idx_idx", "elem", "callee", "arg"}
SiteSeqs == UNION {[1..n -> ExprSites] : n \in 0..MaxNest}

Leaves == {"lit", "returning", "void_named", "void_anon", "void_native"}
VoidLeaves == {"void_named", "void_anon", "void_native"}

Leaf(leaf) ==
    CASE leaf = "lit"         -> Literal(700, LitInteger(1))
      [] leaf = "returning"   -> FnCall(701, Identifier(702, "g"), <<>>)
      [] leaf = "void_named"  -> FnCall(703, Identifier(704, "v"), <<>>)
      [] leaf = "void_anon"   ->
             FnCall(705, FnDef(706, None, <<>>, Block(707, <<>>)), <<>>)
      [] leaf = "void_native" -> FnCall(708, Identifier(709, "nv"), <<>>)

\* The callee name the NoneError for a void leaf carries.
LeafCallee(leaf) ==
    CASE leaf = "void_named"  -> Some("v")
      [] leaf = "void_anon"   -> None
      [] leaf = "void_native" -> Some("nv")

\* The expression with e at the value-required place site.
AtSite(site, e) ==
    CASE site = "neg"     -> Unary(710, "Neg", e)
      [] site = "not"     -> UnaryLogical(711, "Not", e)
      [] site = "add_l"   -> Binary(712, e, "Add", Literal(713, LitInteger(1)))
      [] site = "add_r"   -> Binary(714, Literal(715, LitInteger(1)), "Add", e)
      [] site = "and_l"   -> BinaryLogical(716, e, "And", Literal(717, LitBool(TRUE)))
      [] site = "and_r"   -> BinaryLogical(718, Literal(719, LitBool(TRUE)), "And", e)
      [] site = "idx_obj" -> MemberByIdx(720, e, Literal(721, LitInteger(0)))
      [] site = "idx_idx" ->
             MemberByIdx(722, Tuple(723, <<Literal(724, LitInteger(1))>>), e)
      [] site = "elem"    -> Tuple(725, <<e>>)
      [] site = "callee"  -> FnCall(726, e, <<>>)
      [] site = "arg"     -> FnCall(727, Identifier(728, "id"), <<e>>)

\* e inside the nest sites, outermost site first
RECURSIVE InSites(_, _)
InSites(e, sites) ==
    IF Len(sites) = 0 THEN e
    ELSE AtSite(Head(sites), InSites(e, Tail(sites)))

StmtAt(site, e) ==
    CASE site = "expr"   -> ExprStmt(730, e)
      [] site = "cond"   -> IfThen(731, e, Block(732, <<>>))
      [] site = "init"   -> VarDecl(733, "w", e)
      [] site = "assign" -> Assign(734, "z", e)
      [] site = "return" -> Return(735, Some(e))

ValueProg(stmt_site, sites, leaf) ==
    <<ExprStmt(740, FnDef(741, Some("v"), <<>>, Block(742, <<>>))),
      ExprStmt(743, FnDef(744, Some("g"), <<>>,
                          Block(745, <<Return(746, Some(Literal(747, LitInteger(1))))>>))),
      ExprStmt(748, FnDef(749, Some("id"), <<<<"a", None>>>>,
                          Block(750, <<Return(751, Some(Identifier(752, "a")))>>))),
      VarDecl(753, "z", Literal(754, LitInteger(0))),
      StmtAt(stmt_site, InSites(Leaf(leaf), sites))>>

RunValue(stmt_site, sites, leaf) ==
    /\ Len(history) < MaxRuns
    /\ run_ast_as_statements(ValueProg(stmt_site, sites, leaf))
    /\ ran' = <<"RunValue", stmt_site, sites, leaf>>
    /\ history' = Append(history, [ran |-> ran', res |-> last'.res])

\* The registry holds the void builtin nv, which takes any arguments.
InitValue ==
    New("nonzero", "nv" :> FunctionVal(NativeVoid(CallSign(0, TRUE, <<>>), "nv")))

NextValue ==
    \E stmt_site \in StmtSites, sites \in SiteSeqs, leaf \in Leaves :
        RunValue(stmt_site, sites, leaf)

SpecValue == InitValue /\ [][NextValue]_vars

\* C10: a void call at a value-required place (operand, condition,
\* initializer, right-hand side, tuple element, callee, argument, returned
\* expression) is rejected with a NoneError that carries the callee's name
\* when the callee is an identifier; a void call that is itself the
\* expression statement is accepted; no expression around a value is void;
\* and no run reaches the unreachable!() of interpret_expr_as_value.
C10_ValueRequired ==
    /\ last.res.k # "Panic"
    /\ ran[1] = "RunValue"
       => IF ran[4] \in VoidLeaves
          THEN IF ran[2] = "expr" /\ Len(ran[3]) = 0
               THEN YieldsNone(last.res)
               ELSE /\ Fails(last.res, "NoneError")
                    /\ last.res.v.err.arg = LeafCallee(ran[4])
          ELSE ~Fails(last.res, "NoneError")

\* let w = id(v()) has failed with NoneError(v).
C10_Witness ==
    /\ ran = <<"RunValue", "init", <<"arg">>, "void_named">>
    /\ Fails(last.res, "NoneError")
    /\ last.res.v.err.arg = Some("v")

(***************************************************************************)
(* The type checker on a conditional with both branches.                   *)
(*   let x = 1; let y = true; { .. { if cond <then> else <else> } .. }     *)
(* The host opens the scopes and calls check_statement on the conditional, *)
(* so that the TypeEnvironment is seen as the conditional leaves it.       *)
(***************************************************************************)
CheckNames == <<"x", "y", "z">>

\* The orders in which a set of names may be iterated.
Orders ==
    <<<<"x", "y", "z">>, <<"x", "z", "y">>, <<"y", "x", "z">>,
      <<"y", "z", "x">>, <<"z", "x", "y">>, <<"z", "y", "x">>>>

CondKinds == {"true", "undeclared", "returning", "void"}

CondExpr(cond) ==
    CASE cond = "true"       -> Literal(800, LitBool(TRUE))
      [] cond = "undeclared" -> Identifier(801, "c")
      [] cond = "returning"  -> FunctionCall(802, "nr", <<>>)
      [] cond = "void"       -> FunctionCall(803, "nv", <<>>)

BranchKinds ==
    {"empty", "x_bool", "x_num", "y_num", "block_decl_z", "block_shadow_x",
     "bare_z_num", "bare_z_bool", "bare_x_bool", "bare_assign_x"}

\* A branch; p tells the positions of the two branches apart.
Branch(kind, p) ==
    CASE kind = "empty"          -> Block(p, <<>>)
      [] kind = "x_bool"         ->
             Block(p, <<Assign(p + 1, "x", Literal(p + 2, LitBool(TRUE)))>>)
      [] kind = "x_num"          ->
             Block(p, <<Assign(p + 1, "x", Literal(p + 2, LitInteger(2)))>>)
      [] kind = "y_num"          ->
             Block(p, <<Assign(p + 1, "y", Literal(p + 2, LitInteger(1)))>>)
      [] kind = "block_decl_z"   ->
             Block(p, <<VarDecl(p + 1, "z", Literal(p + 2, LitInteger(1)))>>)
      [] kind = "block_shadow_x" ->
             Block(p, <<VarDecl(p + 1, "x", Literal(p + 2, LitBool(TRUE)))>>)
      [] kind = "bare_z_num"     -> VarDecl(p, "z", Literal(p + 2, LitInteger(1)))
      [] kind = "bare_z_bool"    -> VarDecl(p, "z", Literal(p + 2, LitBool(TRUE)))
      [] kind = "bare_x_bool"    -> VarDecl(p, "x", Literal(p + 2, LitBool(TRUE)))
      [] kind = "bare_assign_x"  -> Assign(p, "x", Literal(p + 2, LitBool(TRUE)))

MergePrelude ==
    <<VarDecl(810, "x", Literal(811, LitInteger(1))),
      VarDecl(812, "y", Literal(813, LitBool(TRUE)))>>

MergeCond(cond, tb, eb) ==
    IfThenElse(820, CondExpr(cond), Branch(tb, 830), Branch(eb, 840))

RECURSIVE Scopes(_, _)
Scopes(depth, env) ==
    IF depth = 0 THEN env ELSE Scopes(depth - 1, start_scope(env))

MaxScopes == 1      \* scopes the host opens around the conditional

\* The TypeEnvironment the conditional is checked against.
MergeEnv(depth, oi) ==
    Scopes(depth, check_statements(MergePrelude,
                                   start_scope(TypeEnvironment_new(Orders[oi]))).env)

CheckMerge(cond, tb, eb, depth, oi) ==
    /\ Len(history) < MaxRuns
    /\ \E r \in {check_statement(MergeCond(cond, tb, eb), MergeEnv(depth, oi))} :
           checked' = r
    /\ ran' = <<"CheckMerge", cond, tb, eb, depth, oi>>
    /\ history' = Append(history, [ran |-> ran', res |-> [k |-> checked'.k]])
    /\ UNCHANGED <<heap, out, rule, last>>

InitMerge == New("nonzero", EmptyTab)

NextMerge ==
    \E cond \in CondKinds, tb \in BranchKinds, eb \in BranchKinds,
       depth \in 0..MaxScopes, oi \in 1..Len(Orders) :
        CheckMerge(cond, tb, eb, depth, oi)

SpecMerge == InitMerge /\ [][NextMerge]_vars

\* The two copies of the last CheckMerge once their branches are checked.
ThenCopy == check_statement(Branch(ran[3], 830), MergeEnv(ran[5], ran[6])).env
ElseCopy == check_statement(Branch(ran[4], 840), MergeEnv(ran[5], ran[6])).env

\* The warnings of the last check for name.
WarningsFor(name) ==
    {i \in 1..Len(checked.v) :
        /\ checked.v[i].kind = "MultipleTypesFromBranchWarning"
        /\ checked.v[i].arg = name}

\* The type env gives name is typ.
HasType(env, name, typ) ==
    /\ IsSome(TypeEnvironment_get_type(env, name))
    /\ Unwrap(TypeEnvironment_get_type(env, name)) = typ

MergedAsStated(name) ==
    (IsSome(TypeEnvironment_get_type(ThenCopy, name))
        /\ IsSome(TypeEnvironment_get_type(ElseCopy, name)))
    => IF Unwrap(TypeEnvironment_get_type(ThenCopy, name))
              = Unwrap(TypeEnvironment_get_type(ElseCopy, name))
       THEN /\ HasType(checked.env, name,
                       Unwrap(TypeEnvironment_get_type(ThenCopy, name)))
            /\ WarningsFor(name) = {}
       ELSE /\ HasType(checked.env, name, "Any")
            /\ Cardinality(WarningsFor(name)) = 1

\* C11: after the check of an IfThenElse whose branches were checked (the
\* condition is no void call) and whose merge ran through, every name to
\* which both copies give a type has that type in the real environment,
\* without a warning, if the copies agree, and has Any, with exactly one
\* MultipleTypesFromBranchWarning for it, if they differ.
C11_BranchMerge ==
    (ran[1] = "CheckMerge" /\ ran[2] # "void" /\ checked.k # "Panic")
    => \A i \in 1..Len(CheckNames) : MergedAsStated(CheckNames[i])

\* if true let z = 1; else let z = true; has given one warning for z, and
\* z has no type in the real environment.
C11_Failing ==
    /\ ran[1] = "CheckMerge"
    /\ ran[2] = "true" /\ ran[3] = "bare_z_num" /\ ran[4] = "bare_z_bool"
    /\ Cardinality(WarningsFor("z")) = 1
    /\ ~IsSome(TypeEnvironment_get_type(checked.env, "z"))

\* let x = 1; if true { x = true; } else { } has given one warning, for x,
\* and x is Any.
C11_Example ==
    (ran[1] = "CheckMerge" /\ ran[2] = "true" /\ ran[3] = "x_bool" /\ ran[4] = "empty")
    => /\ HasType(checked.env, "x", "Any")
       /\ Cardinality(WarningsFor("x")) = 1
       /\ WarningsFor("y") = {} /\ WarningsFor("z") = {}

\* With branches that are Blocks, or that declare nothing, the merge is as
\* stated for every name.
BlockBranches == BranchKinds \ {"bare_z_num", "bare_z_bool", "bare_x_bool"}

C11_BlockBranches ==
    (ran[1] = "CheckMerge" /\ ran[2] # "void"
        /\ ran[3] \in BlockBranches /\ ran[4] \in BlockBranches)
    => /\ checked.k # "Panic"
       /\ \A i \in 1..Len(CheckNames) : MergedAsStated(CheckNames[i])

(***************************************************************************)
(* The same program given to the type checker and then to the evaluator:   *)
(* nested Blocks, conditionals and Loops with a declaration at each level. *)
(***************************************************************************)
MaxMirror == 3      \* statements nested in one another

MirrorKinds == {"block", "if", "ifelse_then", "ifelse_else", "loop"}

MirrorShapes == UNION {[1..n -> MirrorKinds] : n \in 0..MaxMirror}

MarkerNames == <<"m1", "m2", "m3", "m4", "m5">>

Marker(i) == VarDecl(900 + 10 * i, MarkerNames[i], Literal(901 + 10 * i, LitInteger(0)))

\* The statement of kind `kind` around the statements inner, the branch
\* holding them being the one the evaluator takes.
Around(kind, inner, p) ==
    CASE kind = "block"       -> Block(p, inner)
      [] kind = "if"          ->
             IfThen(p, Literal(p + 1, LitBool(TRUE)), Block(p + 2, inner))
      [] kind = "ifelse_then" ->
             IfThenElse(p, Literal(p + 1, LitBool(TRUE)),
                        Block(p + 2, inner), Block(p + 3, <<>>))
      [] kind = "ifelse_else" ->
             IfThenElse(p, Literal(p + 1, LitBool(FALSE)),
                        Block(p + 3, <<>>), Block(p + 2, inner))
      [] kind = "loop"        ->
             Loop(p, Block(p + 2, Append(inner, Break(p + 4))))

RECURSIVE MirrorStmts(_, _)
MirrorStmts(shape, i) ==
    IF i > Len(shape) THEN <<Marker(i)>>
    ELSE <<Marker(i), Around(shape[i], MirrorStmts(shape, i + 1), 905 + 10 * i)>>

MirrorProg(shape) == MirrorStmts(shape, 1)

CheckMirror(shape) ==
    /\ ran[1] = "New"
    /\ \E r \in {check_program(MirrorProg(shape), MarkerNames)} :
           checked' = r
    /\ ran' = <<"CheckMirror", shape>>
    /\ history' = Append(history, [ran |-> ran', res |-> [k |-> checked'.k]])
    /\ UNCHANGED <<heap, out, rule, last>>

RunMirror(shape) ==
    /\ ran[1] = "CheckMirror"
    /\ ran[2] = shape
    /\ run_ast_as_statements(MirrorProg(shape))
    /\ ran' = <<"RunMirror", shape>>
    /\ history' = Append(history, [ran |-> ran', res |-> last'.res])

InitMirror == New("nonzero", EmptyTab)

NextMirror ==
    \/ \E shape \in MirrorShapes : CheckMirror(shape)
    \/ \E shape \in MirrorShapes : RunMirror(shape)

SpecMirror == InitMirror /\ [][NextMirror]_vars

\* The scopes from scope s of arena h out to the root, both counted.
RECURSIVE ChainLen(_, _)
ChainLen(h, s) == IF h[s].parent = 0 THEN 1 ELSE 1 + ChainLen(h, h[s].parent)

\* The numbers of scopes the evaluator had in its chain where it declared
\* name in the last run.
EvaluatorDepths(name) ==
    {ChainLen(last.after, s) :
        s \in {x \in 1..Len(last.after) : name \in DOMAIN last.after[x].tab}}

\* The numbers of scopes the checker had open where it declared name.
CheckerDepths(name) ==
    {checked.env.declared[j][2] :
        j \in {x \in 1..Len(checked.env.declared) : checked.env.declared[x][1] = name}}

\* The Loops around declaration i of the last program.
LoopsAround(i) == Cardinality({j \in 1..(i - 1) : ran[2][j] = "loop"})

\* C12: for the same program, at every declaration in it, the checker has
\* as many scopes open as the evaluator has scopes in its chain (the root
\* counted in both), inside Loop bodies too.
C12_ScopeMirror ==
    ran[1] = "RunMirror"
    => \A i \in 1..(Len(ran[2]) + 1) :
           /\ Cardinality(EvaluatorDepths(MarkerNames[i])) = 1
           /\ CheckerDepths(MarkerNames[i]) = EvaluatorDepths(MarkerNames[i])

\* loop { let m2 = 0; break; }: the evaluator declares m2 with three
\* scopes in its chain, the checker with two scopes open.
C12_Failing ==
    /\ ran = <<"RunMirror", <<"loop">>>>
    /\ last.res.k = "Ok" /\ checked.k = "Ok"
    /\ EvaluatorDepths("m2") = {3}
    /\ CheckerDepths("m2") = {2}

\* The evaluator is ahead of the checker by one scope for each Loop around
\* the declaration, and by none elsewhere.
C12_OnePerLoop ==
    ran[1] = "RunMirror"
    => \A i \in 1..(Len(ran[2]) + 1) :
           /\ Cardinality(CheckerDepths(MarkerNames[i])) = 1
           /\ EvaluatorDepths(MarkerNames[i])
                  = {d + LoopsAround(i) : d \in CheckerDepths(MarkerNames[i])}

(***************************************************************************)
(* The type checker on conditionals whose condition and branches hold      *)
(* undeclared identifiers: each is one issue, ReferenceError(name).        *)
(***************************************************************************)
IssueExprs == {"lit", "u", "binary", "logical", "call", "call_void", "unknown", "nested"}

\* An expression with the undeclared identifiers n .. "1" and n .. "2".
IssueExpr(kind, n, p) ==
    CASE kind = "lit"       -> Literal(p, LitInteger(1))
      [] kind = "u"         -> Identifier(p, n \o "1")
      [] kind = "binary"    ->
             Binary(p, Identifier(p + 1, n \o "1"), "Add", Identifier(p + 2, n \o "2"))
      [] kind = "logical"   ->
             BinaryLogical(p, Identifier(p + 1, n \o "1"), "And",
                           Identifier(p + 2, n \o "2"))
      [] kind = "call"      ->
             FunctionCall(p, "nr", <<Identifier(p + 1, n \o "1"),
                                     Identifier(p + 2, n \o "2")>>)
      [] kind = "call_void" ->
             FunctionCall(p, "nv", <<Identifier(p + 1, n \o "1"),
                                     Identifier(p + 2, n \o "2")>>)
      [] kind = "unknown"   ->
             FunctionCall(p, "unknown", <<Identifier(p + 1, n \o "1"),
                                          Identifier(p + 2, n \o "2")>>)
      [] kind = "nested"    ->
             Binary(p, FunctionCall(p + 1, "nr", <<Identifier(p + 2, n \o "1")>>),
                    "Add", Unary(p + 3, "Minus", Identifier(p + 4, n \o "2")))

IssueConds == IssueExprs \cup {"true", "void"}

IssueCond(cond) ==
    CASE cond = "true" -> Literal(1000, LitBool(TRUE))
      [] cond = "void" -> FunctionCall(1000, "nv", <<>>)
      [] OTHER         -> IssueExpr(cond, "c", 1000)

ElseKinds == IssueExprs \cup {"none"}

IssueWraps == {"none", "block", "loop"}

IssueCondStmt(cond, tk, ek) ==
    IF ek = "none"
    THEN IfThen(1010, IssueCond(cond),
                Block(1011, <<ExprStmt(1012, IssueExpr(tk, "t", 1020))>>))
    ELSE IfThenElse(1010, IssueCond(cond),
                    Block(1011, <<ExprStmt(1012, IssueExpr(tk, "t", 1020))>>),
                    Block(1013, <<ExprStmt(1014, IssueExpr(ek, "e", 1030))>>))

IssueStmt(cond, tk, ek, wrap) ==
    CASE wrap = "none"  -> IssueCondStmt(cond, tk, ek)
      [] wrap = "block" ->
             Block(1001, <<ExprStmt(1002, Identifier(1003, "b1")),
                           IssueCondStmt(cond, tk, ek),
                           ExprStmt(1004, Identifier(1005, "b2"))>>)
      [] wrap = "loop"  ->
             Loop(1001, Block(1002, <<IssueCondStmt(cond, tk, ek), Break(1003)>>))

CheckIssues(cond, tk, ek, wrap) ==
    /\ Len(history) < MaxRuns
    /\ \E r \in {check_statement(IssueStmt(cond, tk, ek, wrap),
                                 start_scope(TypeEnvironment_new(<<>>)))} :
           checked' = r
    /\ ran' = <<"CheckIssues", cond, tk, ek, wrap>>
    /\ history' = Append(history, [ran |-> ran', res |-> [k |-> checked'.k]])
    /\ UNCHANGED <<heap, out, rule, last>>

InitIssues == New("nonzero", EmptyTab)

NextIssues ==
    \E cond \in IssueConds, tk \in IssueExprs, ek \in ElseKinds, wrap \in IssueWraps :
        CheckIssues(cond, tk, ek, wrap)

SpecIssues == InitIssues /\ [][NextIssues]_vars

\* The identifiers of a tree, in the order of the tree.
RECURSIVE IdentifiersOf(_)
RECURSIVE IdentifiersOfAll(_, _)
IdentifiersOfAll(nodes, i) ==
    IF i > Len(nodes) THEN <<>>
    ELSE IdentifiersOf(nodes[i]) \o IdentifiersOfAll(nodes, i + 1)

IdentifiersOf(node) ==
    CASE node.k = "Identifier"   -> <<node.id>>
      [] node.k \in {"Unary", "UnaryLogical"} -> IdentifiersOf(node.expr)
      [] node.k \in {"Binary", "BinaryLogical"} ->
             IdentifiersOf(node.expr1) \o IdentifiersOf(node.expr2)
      [] node.k = "FunctionCall" -> IdentifiersOfAll(node.args, 1)
      [] node.k = "Expr"         -> IdentifiersOf(node.expr)
      [] node.k = "Block"        -> IdentifiersOfAll(node.statements, 1)
      [] node.k = "Loop"         -> IdentifiersOf(node.block)
      [] node.k = "IfThen"       ->
             IdentifiersOf(node.cond) \o IdentifiersOf(node.then_block)
                 \o (IF IsSome(node.maybe_else_block)
                     THEN IdentifiersOf(Unwrap(node.maybe_else_block)) ELSE <<>>)
      [] OTHER                   -> <<>>

\* The statement of the last CheckIssues.
IssueStmtRan == IssueStmt(ran[2], ran[3], ran[4], ran[5])

\* The names of the ReferenceErrors reported for identifiers, in the order
\* of the report.
RECURSIVE ReferenceErrors(_, _)
ReferenceErrors(issues, i) ==
    IF i > Len(issues) THEN <<>>
    ELSE IF issues[i].kind = "ReferenceError"
            /\ issues[i].arg \notin {"unknown", "nv", "nr"}
    THEN <<issues[i].arg>> \o ReferenceErrors(issues, i + 1)
    ELSE ReferenceErrors(issues, i + 1)

\* The condition of the last statement is a void call that checks to
\* Ok(None).
VoidCondition == ran[2] = "void"

\* C13: the check of a statement reports the issue of every undeclared
\* identifier anywhere in it, in the order of the tree: of both operands
\* of a binary expression, of all arguments of a call, and of the branches
\* of a conditional whatever its condition is.
C13_NeverAborts ==
    ran[1] = "CheckIssues"
    => /\ checked.k # "Panic"
       /\ ReferenceErrors(checked.v, 1) = IdentifiersOf(IssueStmtRan)

\* if nv() { t1; } has reported NoneError(nv) alone: the branch was not
\* checked.
C13_Failing ==
    /\ ran = <<"CheckIssues", "void", "u", "none", "none">>
    /\ IdentifiersOf(IssueStmtRan) = <<"t1">>
    /\ Len(checked.v) = 1
    /\ checked.v[1].kind = "NoneError"

\* if true { unknown(t1, t2); } has reported ReferenceError(unknown) alone:
\* the arguments were not checked.
C13_FailingCall ==
    /\ ran = <<"CheckIssues", "true", "unknown", "none", "none">>
    /\ Len(checked.v) = 1
    /\ checked.v[1].kind = "ReferenceError" /\ checked.v[1].arg = "unknown"

\* Where no condition is a void call and no call is of an unknown name,
\* every identifier's issue is reported, in the order of the tree.
C13_Accumulates ==
    (ran[1] = "CheckIssues" /\ ~VoidCondition
        /\ "unknown" \notin {ran[2], ran[3], ran[4]})
    => /\ checked.k = "Err" \/ IdentifiersOf(IssueStmtRan) = <<>>
       /\ ReferenceErrors(checked.v, 1) = IdentifiersOf(IssueStmtRan)

(***************************************************************************)
(* An error raised below k user calls.                                     *)
(*   let n = 0; let started = false;                                       *)
(*   fn f1() { started = true; <error>; n = n + 1; }                       *)
(*   fn f2() { <call f1>; n = n + 1; }  ..                                 *)
(*   <call fk>; n = n + 1;                                                 *)
(***************************************************************************)
MaxCalls == 2       \* user calls between the run and the error

ErrKinds == {"ReferenceError", "UndeclaredAssignment", "BinaryTypeError",
             "CallToNonFunction"}

ErrSites == {"stmt", "block", "then", "loop"}

WrapContexts == {"stmt", "value", "operand"}

\* A statement that raises an error of the kind, positioned at 1190.
ErrStmt(kind) ==
    CASE kind = "ReferenceError"       -> ExprStmt(1180, Identifier(1190, "nope"))
      [] kind = "UndeclaredAssignment" ->
             Assign(1190, "nope", Literal(1181, LitInteger(1)))
      [] kind = "BinaryTypeError"      ->
             ExprStmt(1180, Binary(1190, Literal(1181, LitInteger(1)), "Add",
                                   Literal(1182, LitBool(TRUE))))
      [] kind = "CallToNonFunction"    ->
             ExprStmt(1180, FnCall(1181, Identifier(1190, "n"), <<>>))

ErrAt(site, kind) ==
    CASE site = "stmt"  -> ErrStmt(kind)
      [] site = "block" -> Block(1170, <<ErrStmt(kind)>>)
      [] site = "then"  ->
             IfThen(1170, Literal(1171, LitBool(TRUE)), Block(1172, <<ErrStmt(kind)>>))
      [] site = "loop"  -> Loop(1170, Block(1172, <<ErrStmt(kind), Break(1173)>>))

FnNames == <<"f1", "f2", "f3">>

\* The position of the call of function j.
CallPos(j) == 1100 + 10 * j

CountStmt(p) ==
    Assign(p, "n", Binary(p + 1, Identifier(p + 2, "n"), "Add",
                          Literal(p + 3, LitInteger(1))))

\* The statement that raises, or hands on, the error at level j: the error
\* itself at level 0, the call of function j above.
Raising(j, kind, site, context) ==
    IF j = 0 THEN ErrAt(site, kind)
    ELSE CASE context = "stmt"    ->
                  ExprStmt(CallPos(j) + 5,
                           FnCall(CallPos(j), Identifier(CallPos(j) + 1, FnNames[j]), <<>>))
           [] context = "value"   ->
                  VarDecl(CallPos(j) + 5, "r",
                          FnCall(CallPos(j), Identifier(CallPos(j) + 1, FnNames[j]), <<>>))
           [] context = "operand" ->
                  ExprStmt(CallPos(j) + 5,
                           Binary(CallPos(j) + 6, Literal(CallPos(j) + 7, LitInteger(1)),
                                  "Add",
                                  FnCall(CallPos(j), Identifier(CallPos(j) + 1, FnNames[j]),
                                         <<>>)))

\* fn fj() { started = true; <raising at level j - 1>; n = n + 1; }
WrapDef(j, kind, site, context) ==
    ExprStmt(1200 + 10 * j,
             FnDef(1201 + 10 * j, Some(FnNames[j]), <<>>,
                   Block(1202 + 10 * j,
                         <<Assign(1203 + 10 * j, "started", Literal(1204 + 10 * j, LitBool(TRUE))),
                           Raising(j - 1, kind, site, context),
                           CountStmt(1205 + 10 * j)>>)))

RECURSIVE WrapDefs(_, _, _, _)
WrapDefs(j, kind, site, context) ==
    IF j = 0 THEN <<>>
    ELSE Append(WrapDefs(j - 1, kind, site, context), WrapDef(j, kind, site, context))

WrapProg(k, kind, site, context) ==
    <<VarDecl(1090, "n", Literal(1091, LitInteger(0))),
      VarDecl(1092, "started", Literal(1093, LitBool(FALSE)))>>
    \o WrapDefs(k, kind, site, context)
    \o <<Raising(k, kind, site, context), CountStmt(1290)>>

RunWrap(k, kind, site, context) ==
    /\ Len(history) < MaxRuns
    /\ run_ast_as_statements(WrapProg(k, kind, site, context))
    /\ ran' = <<"RunWrap", k, kind, site, context>>
    /\ history' = Append(history, [ran |-> ran', res |-> last'.res])

InitWrap == New("nonzero", EmptyTab)

NextWrap ==
    \E k \in 0..MaxCalls, kind \in ErrKinds, site \in ErrSites,
       context \in WrapContexts :
        RunWrap(k, kind, site, context)

SpecWrap == InitWrap /\ [][NextWrap]_vars

\* The error e, as the caller of function j sees it, is the error of the
\* kind at 1190 wrapped once for each of the calls j, j - 1, .., 1, each
\* wrapper positioned at its call.
RECURSIVE WrappedAt(_, _, _)
WrappedAt(e, j, kind) ==
    IF j = 0 THEN e.err.kind = kind /\ e.pos = 1190
    ELSE /\ e.err.kind = "InsideFunctionCall"
         /\ e.pos = CallPos(j)
         /\ WrappedAt(e.err.arg, j - 1, kind)

\* C14: the first error ends the run: no statement after it is executed,
\* in the function bodies or at the top level; the run's error is the
\* original error kind at its original position wrapped in
\* InsideFunctionCall exactly once for each user call it crosses, each
\* wrapper positioned at the call expression.
C14_FailFast ==
    ran[1] = "RunWrap"
    => /\ last.res.k = "Err"
       /\ WrappedAt(last.res.v, ran[2], ran[3])
       /\ Bound("n", ROOT, last.after, Integer(0))
       /\ Bound("started", ROOT, last.after, Bool(ran[2] > 0))
       /\ ~Declared("r", ROOT, last.after)

\* A ReferenceError below two calls has come out wrapped twice, the outer
\* wrapper at the call of f2 and the inner one at the call of f1.
C14_Witness ==
    /\ ran = <<"RunWrap", 2, "ReferenceError", "loop", "value">>
    /\ last.res.k = "Err"
    /\ last.res.v.pos = CallPos(2)
    /\ last.res.v.err.kind = "InsideFunctionCall"
    /\ last.res.v.err.arg.pos = CallPos(1)
    /\ last.res.v.err.arg.err.arg.err.kind = "ReferenceError"
    /\ last.res.v.err.arg.err.arg.pos = 1190

(***************************************************************************)
(* The type checker on a conditional without else.                         *)
(*   let x = 1; let y = true; { .. { if cond <then> } .. }                 *)
(***************************************************************************)
LiveConds == {"true", "false", "undeclared", "returning", "void", "compare"}

LiveCond(cond) ==
    CASE cond = "false"   -> Literal(1300, LitBool(FALSE))
      [] cond = "compare" ->
             Binary(1300, Identifier(1301, "x"), "Lt", Literal(1302, LitInteger(3)))
      [] OTHER            -> CondExpr(cond)

LiveBranches ==
    {"empty", "x_bool", "x_num", "y_num", "both", "twice", "decl_z", "shadow_x",
     "nested", "decl_then_assign", "bare_x_bool"}

SetTo(p, name, bool) ==
    Assign(p, name, IF bool THEN Literal(p + 1, LitBool(TRUE))
                    ELSE Literal(p + 1, LitInteger(2)))

LiveBranch(kind) ==
    CASE kind = "empty"            -> Block(1310, <<>>)
      [] kind = "x_bool"           -> Block(1310, <<SetTo(1311, "x", TRUE)>>)
      [] kind = "x_num"            -> Block(1310, <<SetTo(1311, "x", FALSE)>>)
      [] kind = "y_num"            -> Block(1310, <<SetTo(1311, "y", FALSE)>>)
      [] kind = "both"             ->
             Block(1310, <<SetTo(1311, "x", TRUE), SetTo(1313, "y", FALSE)>>)
      [] kind = "twice"            ->
             Block(1310, <<SetTo(1311, "x", TRUE), SetTo(1313, "x", FALSE)>>)
      [] kind = "decl_z"           ->
             Block(1310, <<VarDecl(1311, "z", Literal(1312, LitInteger(1)))>>)
      [] kind = "shadow_x"         ->
             Block(1310, <<VarDecl(1311, "x", Literal(1312, LitInteger(1))),
                           SetTo(1313, "x", TRUE)>>)
      [] kind = "nested"           ->
             Block(1310, <<Block(1311, <<SetTo(1312, "x", TRUE)>>)>>)
      [] kind = "decl_then_assign" ->
             Block(1310, <<VarDecl(1311, "z", Literal(1312, LitInteger(1))),
                           SetTo(1313, "y", FALSE)>>)
      [] kind = "bare_x_bool"      -> SetTo(1310, "x", TRUE)

LiveStmt(cond, kind) == IfThen(1305, LiveCond(cond), LiveBranch(kind))

CheckIfThen(cond, kind, depth) ==
    /\ Len(history) < MaxRuns
    /\ \E r \in {check_statement(LiveStmt(cond, kind), MergeEnv(depth, 1))} :
           checked' = r
    /\ ran' = <<"CheckIfThen", cond, kind, depth>>
    /\ history' = Append(history, [ran |-> ran', res |-> [k |-> checked'.k]])
    /\ UNCHANGED <<heap, out, rule, last>>

InitLive == New("nonzero", EmptyTab)

NextLive ==
    \E cond \in LiveConds, kind \in LiveBranches, depth \in 0..MaxScopes :
        CheckIfThen(cond, kind, depth)

SpecLive == InitLive /\ [][NextLive]_vars

\* The types the then-branch of the kind assigns last to the x and the y
\* declared outside the conditional (those they have, where it assigns
\* none).
AssignedX(kind) ==
    IF kind \in {"x_bool", "both", "nested", "bare_x_bool"} THEN "Bool" ELSE "Number"

AssignedY(kind) ==
    IF kind \in {"y_num", "both", "decl_then_assign"} THEN "Number" ELSE "Bool"

NoBranchWarning ==
    \A i \in 1..Len(checked.v) : checked.v[i].kind # "MultipleTypesFromBranchWarning"

LiveAsStated ==
    /\ checked.k # "Panic"
    /\ HasType(checked.env, "x", AssignedX(ran[3]))
    /\ HasType(checked.env, "y", AssignedY(ran[3]))
    /\ NoBranchWarning
    /\ ~IsSome(TypeEnvironment_get_type(checked.env, "z"))
    /\ Len(checked.env.symbol_tables) = 1 + ran[4]

\* C15: after the check of an IfThen without else, a name declared outside
\* the conditional has the type the then-branch assigned to it, no
\* MultipleTypesFromBranchWarning is among the issues, and a name declared
\* in the then-branch's Block is not visible.
C15_IfThenLive == ran[1] = "CheckIfThen" => LiveAsStated

\* let x = 1; if nv() { x = true; }: x is still Number, the one issue is
\* NoneError(nv).
C15_Failing ==
    /\ ran = <<"CheckIfThen", "void", "x_bool", 0>>
    /\ HasType(checked.env, "x", "Number")
    /\ Len(checked.v) = 1 /\ checked.v[1].kind = "NoneError"

\* With a condition that is not a void call the conditional is checked as
\* stated, and leaves the environment exactly as the check of its
\* then-branch alone does.
C15_BranchChecked ==
    (ran[1] = "CheckIfThen" /\ ran[2] # "void")
    => /\ LiveAsStated
       /\ checked.env.symbol_tables
              = check_statement(LiveBranch(ran[3]), MergeEnv(ran[4], 1)).env.symbol_tables

(***************************************************************************)
(* A sequence of top-level statements, each after a mark of its position.  *)
(*   let t = (); t = t + (1,); <item 1>; t = t + (2,); <item 2>; ..        *)
(***************************************************************************)
MaxTop == 3         \* items of a top-level sequence

TopPrims == CtlPrims \cup {"Error"}

\* An item is <<primitive, whether it is inside a Block of its own>>.
TopItems == TopPrims \X BOOLEAN
TopSeqs == UNION {[1..n -> TopItems] : n \in 0..MaxTop}

TopStmt(item, p) ==
    IF item[1] = "Error"
    THEN Wrapped(ErrStmt("ReferenceError"), IF item[2] THEN <<"block">> ELSE <<>>)
    ELSE Wrapped(PrimStmt(item[1], p), IF item[2] THEN <<"block">> ELSE <<>>)

\* The empty sequence is the empty program.
TopProg(items) ==
    IF Len(items) = 0 THEN <<>>
    ELSE <<VarDecl(1400, "t", Tuple(1401, <<>>))>>
         \o [j \in 1..(2 * Len(items)) |->
                IF j % 2 = 1 THEN Mark((j + 1) \div 2)
                ELSE TopStmt(items[j \div 2], j \div 2)]

RunTop(items) ==
    /\ Len(history) < MaxRuns
    /\ run_ast_as_statements(TopProg(items))
    /\ ran' = <<"RunTop", items>>
    /\ history' = Append(history, [ran |-> ran', res |-> last'.res])

InitTop == New("nonzero", EmptyTab)

NextTop == \E items \in TopSeqs : RunTop(items)

SpecTop == InitTop /\ [][NextTop]_vars

\* The position of the first item from p on that raises an error; one past
\* the end if none does.
RECURSIVE FirstError(_, _)
FirstError(items, p) ==
    IF p > Len(items) THEN Len(items) + 1
    ELSE IF items[p][1] = "Error" THEN p
    ELSE FirstError(items, p + 1)

\* The last run has returned what item n, the last of its statements,
\* yields.
TopYields(items, n) ==
    CASE items[n][1] = "Break"      -> Yields(last.res, "Break")
      [] items[n][1] = "ReturnNone" -> YieldsReturn(last.res, None)
      [] items[n][1] = "ReturnSome" -> YieldsReturn(last.res, Some(Integer(10 * n)))
      [] items[n][1] = "Value"      -> YieldsValue(last.res, Integer(10 * n))
      [] OTHER                      -> YieldsNone(last.res)

\* C16: a run of a top-level sequence executes its statements in order up
\* to the first that raises an error, a Break or Return yielded by one of
\* them stopping nothing; without an error it returns what the last
\* statement yields, and no result for the empty sequence.
C16_TopLevel ==
    ran[1] = "RunTop"
    => IF Len(ran[2]) = 0
       THEN last.res.k = "Ok" /\ ~IsSome(last.res.v) /\ last.after = last.before
       ELSE /\ Bound("t", ROOT, last.after,
                     TupleVal([p \in 1..(IF FirstError(ran[2], 1) > Len(ran[2])
                                         THEN Len(ran[2])
                                         ELSE FirstError(ran[2], 1)) |-> Integer(p)]))
            /\ IF FirstError(ran[2], 1) > Len(ran[2])
               THEN TopYields(ran[2], Len(ran[2]))
               ELSE Fails(last.res, "ReferenceError")

\* After a Break and a Return out of a Block the third statement has run,
\* and its value is the result.
C16_Witness ==
    /\ ran = <<"RunTop", <<<<"Break", FALSE>>, <<"ReturnSome", TRUE>>, <<"Value", FALSE>>>>>>
    /\ YieldsValue(last.res, Integer(30))
    /\ Bound("t", ROOT, last.after, TupleVal(<<Integer(1), Integer(2), Integer(3)>>))

(***************************************************************************)
(* The order of a call: a callee expression and arguments that each leave  *)
(* a mark in the tuple t.                                                  *)
(*   let t = (); fn f(p1, .., pn) { t = t + (9,); }                        *)
(*   fn g() { t = t + (0,); return f; }      (or: return 5;)               *)
(*   fn a1() { t = t + (1,); return 1; }     (or: return nope; return;) .. *)
(*   g()(a1(), .., am())                                                   *)
(***************************************************************************)
CalleeKinds == {"function", "nonfunction"}

ArgKinds == {"ok", "err", "void"}
ArgKindSeqs == UNION {[1..m -> ArgKinds] : m \in 0..MaxArgs}

ArgFns == <<"a1", "a2", "a3", "a4", "a5">>

\* fn name() { t = t + (p,); return expr; }
MarkingFn(name, p, possible_expr) ==
    ExprStmt(1500 + 20 * p,
             FnDef(1501 + 20 * p, Some(name), <<>>,
                   Block(1502 + 20 * p,
                         <<Mark(p), Return(1503 + 20 * p, possible_expr)>>)))

CalleeDef(callee) ==
    MarkingFn("g", 0, IF callee = "function" THEN Some(Identifier(1510, "f"))
                      ELSE Some(Literal(1510, LitInteger(5))))

ArgDef(kind, j) ==
    MarkingFn(ArgFns[j], j,
              CASE kind = "ok"   -> Some(Literal(1511 + 20 * j, LitInteger(j)))
                [] kind = "err"  -> Some(Identifier(1511 + 20 * j, "nope"))
                [] kind = "void" -> None)

\* g()(a1(), .., am())
OrderCall(m) ==
    FnCall(1490, FnCall(1491, Identifier(1492, "g"), <<>>),
           [j \in 1..m |-> FnCall(1600 + 2 * j, Identifier(1601 + 2 * j, ArgFns[j]), <<>>)])

OrderProg(callee, n, kinds) ==
    <<VarDecl(1480, "t", Tuple(1481, <<>>)),
      ExprStmt(1482, FnDef(1483, Some("f"), [i \in 1..n |-> <<ParamNames[i], None>>],
                           Block(1484, <<Mark(9)>>))),
      CalleeDef(callee)>>
    \o [j \in 1..Len(kinds) |-> ArgDef(kinds[j], j)]
    \o <<ExprStmt(1485, OrderCall(Len(kinds)))>>

RunOrder(callee, n, kinds) ==
    /\ Len(history) < MaxRuns
    /\ run_ast_as_statements(OrderProg(callee, n, kinds))
    /\ ran' = <<"RunOrder", callee, n, kinds>>
    /\ history' = Append(history, [ran |-> ran', res |-> last'.res])

InitOrder == New("nonzero", EmptyTab)

NextOrder ==
    \E callee \in CalleeKinds, n \in 0..MaxParams, kinds \in ArgKindSeqs :
        RunOrder(callee, n, kinds)

SpecOrder == InitOrder /\ [][NextOrder]_vars

\* The position of the first argument from j on that fails; one past the
\* end if none does.
RECURSIVE FirstFailing(_, _)
FirstFailing(kinds, j) ==
    IF j > Len(kinds) THEN Len(kinds) + 1
    ELSE IF kinds[j] # "ok" THEN j
    ELSE FirstFailing(kinds, j + 1)

\* The marks 0, 1, .., m, followed by those of last.
Marks(m, tail) ==
    TupleVal([p \in 1..(m + 1) |-> Integer(p - 1)] \o tail)

\* C17: the callee expression is evaluated first; if its value is not a
\* Function the call fails with CallToNonFunction and no argument has been
\* evaluated; otherwise the arguments are evaluated from left to right,
\* each once, up to the first that fails, and only after all of them the
\* argument count is validated, the body running only after that.
C17_CallOrder ==
    ran[1] = "RunOrder"
    => IF ran[2] = "nonfunction"
       THEN /\ Fails(last.res, "CallToNonFunction")
            /\ Bound("t", ROOT, last.after, Marks(0, <<>>))
       ELSE IF FirstFailing(ran[4], 1) <= Len(ran[4])
       THEN /\ IF ran[4][FirstFailing(ran[4], 1)] = "err"
               THEN /\ Fails(last.res, "InsideFunctionCall")
                    /\ last.res.v.err.arg.err.kind = "ReferenceError"
               ELSE /\ Fails(last.res, "NoneError")
                    /\ last.res.v.err.arg = Some(ArgFns[FirstFailing(ran[4], 1)])
            /\ Bound("t", ROOT, last.after, Marks(FirstFailing(ran[4], 1), <<>>))
       ELSE IF Len(ran[4]) # ran[3]
       THEN /\ Fails(last.res, "ArgumentLength")
            /\ last.res.v.pos = 1490
            /\ Bound("t", ROOT, last.after, Marks(Len(ran[4]), <<>>))
       ELSE /\ last.res.k = "Ok"
            /\ Bound("t", ROOT, last.after, Marks(Len(ran[4]), <<Integer(9)>>))

\* A call with three arguments of a function of one parameter has
\* evaluated the callee and all three arguments, in order, before it
\* failed on their number.
C17_Witness ==
    /\ ran = <<"RunOrder", "function", 1, <<"ok", "ok", "ok">>>>
    /\ Fails(last.res, "ArgumentLength")
    /\ Bound("t", ROOT, last.after,
             TupleVal(<<Integer(0), Integer(1), Integer(2), Integer(3)>>))

(***************************************************************************)
(* Calls of a user function from a scope that is not the one it was        *)
(* defined in.                                                             *)
(*   let seen = 0; [{] let k = 3; fn f(p) { <body> }                       *)
(*   { let c = 7; [{] f(a); f(a + 10); [}] } [}]                           *)
(***************************************************************************)
MaxArgVal == 3      \* the argument of the first call

DefSites == {"root", "block"}

LexBodies == {"read_caller", "assign_caller", "read_captured", "shadow_param",
              "read_param", "leak"}

SeenIs(p, expr) == Assign(p, "seen", expr)

\* The statements of the body of f; a is the argument of the first call.
LexBody(body, a) ==
    CASE body = "read_caller"   -> <<SeenIs(1700, Identifier(1701, "c"))>>
      [] body = "assign_caller" -> <<Assign(1700, "c", Literal(1701, LitInteger(5)))>>
      [] body = "read_captured" -> <<SeenIs(1700, Identifier(1701, "k"))>>
      [] body = "shadow_param"  ->
             <<VarDecl(1700, "p", Literal(1701, LitInteger(99))),
               SeenIs(1702, Identifier(1703, "p"))>>
      [] body = "read_param"    -> <<SeenIs(1700, Identifier(1701, "p"))>>
      [] body = "leak"          ->
             <<IfThen(1700, Binary(1701, Identifier(1702, "p"), "Eq",
                                   Literal(1703, LitInteger(a + 10))),
                      Block(1704, <<SeenIs(1705, Identifier(1706, "loc"))>>)),
               VarDecl(1707, "loc", Identifier(1708, "p"))>>

LexDef(body, a) ==
    ExprStmt(1710, FnDef(1711, Some("f"), <<<<"p", None>>>>,
                         Block(1712, LexBody(body, a))))

LexCall(p, v) ==
    ExprStmt(p, FnCall(p + 1, Identifier(p + 2, "f"), <<Literal(p + 3, LitInteger(v))>>))

LexCalls(calls, a) ==
    IF calls = 1 THEN <<LexCall(1720, a)>>
    ELSE <<LexCall(1720, a), LexCall(1730, a + 10)>>

\* The caller: c is declared in its outermost Block, the calls are nest
\* Blocks deep.
LexCaller(nest, calls, a) ==
    Block(1740, <<VarDecl(1741, "c", Literal(1742, LitInteger(7)))>>
                \o (IF nest = 1 THEN LexCalls(calls, a)
                    ELSE <<Block(1743, LexCalls(calls, a))>>))

LexProg(defsite, body, nest, calls, a) ==
    <<VarDecl(1750, "seen", Literal(1751, LitInteger(0)))>>
    \o (IF defsite = "root"
        THEN <<VarDecl(1752, "k", Literal(1753, LitInteger(3))),
               LexDef(body, a), LexCaller(nest, calls, a)>>
        ELSE <<Block(1754, <<VarDecl(1752, "k", Literal(1753, LitInteger(3))),
                             LexDef(body, a), LexCaller(nest, calls, a)>>)>>)

RunLexical(defsite, body, nest, calls, a) ==
    /\ Len(history) < MaxRuns
    /\ run_ast_as_statements(LexProg(defsite, body, nest, calls, a))
    /\ ran' = <<"RunLexical", defsite, body, nest, calls, a>>
    /\ history' = Append(history, [ran |-> ran', res |-> last'.res])

InitLexical == New("nonzero", EmptyTab)

NextLexical ==
    \E defsite \in DefSites, body \in LexBodies, nest \in 1..2, calls \in 1..2,
       a \in 1..MaxArgVal :
        RunLexical(defsite, body, nest, calls, a)

SpecLexical == InitLexical /\ [][NextLexical]_vars

\* The scopes made by the last run that hold name.
Holding(name) ==
    {s \in (Len(last.before) + 1)..Len(last.after) : name \in DOMAIN last.after[s].tab}

\* The scope f was defined in, and the scope of the caller's c.
CapturedScope == IF ran[2] = "root" THEN ROOT ELSE CHOOSE s \in Holding("k") : TRUE
CallerScope == CHOOSE s \in Holding("c") : TRUE

\* The parameter scopes: the children of the captured scope that bind p.
ParamScopes == {s \in Holding("p") : last.after[s].parent = CapturedScope}

ChildScopes(s) == {x \in 1..Len(last.after) : last.after[x].parent = s}

\* The calls the last run has entered.
CallsMade ==
    IF ran[3] \in {"read_caller", "assign_caller"} THEN 1 ELSE ran[5]

LastArg == IF ran[5] = 1 THEN ran[6] ELSE ran[6] + 10

InsideCallFails(kind, name) ==
    /\ Fails(last.res, "InsideFunctionCall")
    /\ last.res.v.err.arg.err.kind = kind
    /\ last.res.v.err.arg.err.arg = name

LexOutcome ==
    CASE ran[3] = "read_caller"   ->
             InsideCallFails("ReferenceError", "c")
                 /\ Bound("seen", ROOT, last.after, Integer(0))
      [] ran[3] = "assign_caller" -> InsideCallFails("UndeclaredAssignment", "c")
      [] ran[3] = "read_captured" ->
             last.res.k = "Ok" /\ Bound("seen", ROOT, last.after, Integer(3))
      [] ran[3] = "shadow_param"  ->
             last.res.k = "Ok" /\ Bound("seen", ROOT, last.after, Integer(99))
      [] ran[3] = "read_param"    ->
             last.res.k = "Ok" /\ Bound("seen", ROOT, last.after, Integer(LastArg))
      [] ran[3] = "leak"          ->
             /\ Bound("seen", ROOT, last.after, Integer(0))
             /\ IF ran[5] = 1 THEN last.res.k = "Ok"
                ELSE InsideCallFails("ReferenceError", "loc")

\* C18: every call of a user function makes a new parameter scope whose
\* parent is the scope the function was defined in, not the caller's, and
\* a new scope below it for the body; the body can neither read nor assign
\* a name that only the caller's scopes declare; a declaration of the
\* parameter's name in the body leaves the parameter's binding as it was;
\* what one call has declared the next call does not see.
C18_Lexical ==
    ran[1] = "RunLexical"
    => /\ LexOutcome
       /\ Cardinality(Holding("k")) = (IF ran[2] = "root" THEN 0 ELSE 1)
       /\ Bound("k", CapturedScope, last.after, Integer(3))
       /\ Cardinality(Holding("c")) = 1
       /\ CapturedScope # CallerScope
       /\ Bound("c", CallerScope, last.after, Integer(7))
       /\ Cardinality(ParamScopes) = CallsMade
       /\ {last.after[s].tab["p"] : s \in ParamScopes}
              = {Integer(ran[6] + 10 * (i - 1)) : i \in 1..CallsMade}
       /\ \A s \in ParamScopes :
              /\ DOMAIN last.after[s].tab = {"p"}
              /\ Cardinality(ChildScopes(s)) = 1
              /\ \A x \in ChildScopes(s) : DOMAIN last.after[x].tab = {}

\* Two calls from a Block inside the caller of a function defined in a
\* Block: the second call has not seen the loc the first one declared.
C18_Witness ==
    /\ ran = <<"RunLexical", "block", "leak", 2, 2, 1>>
    /\ InsideCallFails("ReferenceError", "loc")
    /\ Cardinality(ParamScopes) = 2
    /\ \E s \in Holding("loc") : last.after[s].tab["loc"] = Integer(1)

(***************************************************************************)
(* Calls with the wrong number of arguments, the callee written as an      *)
(* identifier or as another expression.                                    *)
(*   fn f(p1, .., pn) { }  fn mk() { return f; }                           *)
(*   f(1, .., m)     mk()(1, .., m)     (f,)[0](1, .., m)                  *)
(***************************************************************************)
NamedCallees == {"identifier", "returned", "member"}

NamedCallee(callee) ==
    CASE callee = "identifier" -> Identifier(1801, "f")
      [] callee = "returned"   -> FnCall(1801, Identifier(1802, "mk"), <<>>)
      [] callee = "member"     ->
             MemberByIdx(1801, Tuple(1802, <<Identifier(1803, "f")>>),
                         Literal(1804, LitInteger(0)))

NamedCall(callee, m) == FnCall(1800, NamedCallee(callee), ArgExprs(m))

NamedCallStmt(callee, m, context) ==
    CASE context = "stmt"    -> ExprStmt(1810, NamedCall(callee, m))
      [] context = "value"   -> VarDecl(1810, "r", NamedCall(callee, m))
      [] context = "operand" ->
             ExprStmt(1810, Binary(1811, Literal(1812, LitInteger(1)), "Add",
                                   NamedCall(callee, m)))

NamedProg(callee, n, m, context) ==
    <<ExprStmt(1820, FnDef(1821, Some("f"), [i \in 1..n |-> <<ParamNames[i], None>>],
                           Block(1822, <<Return(1823, Some(Literal(1824, LitInteger(1))))>>))),
      ExprStmt(1825, FnDef(1826, Some("mk"), <<>>,
                           Block(1827, <<Return(1828, Some(Identifier(1829, "f")))>>))),
      NamedCallStmt(callee, m, context)>>

RunNamed(callee, n, m, context) ==
    /\ Len(history) < MaxRuns
    /\ run_ast_as_statements(NamedProg(callee, n, m, context))
    /\ ran' = <<"RunNamed", callee, n, m, context>>
    /\ history' = Append(history, [ran |-> ran', res |-> last'.res])

InitNamed == New("nonzero", EmptyTab)

NextNamed ==
    \E callee \in NamedCallees, n \in 0..MaxParams, m \in 0..MaxArgs,
       context \in WrapContexts :
        RunNamed(callee, n, m, context)

SpecNamed == InitNamed /\ [][NextNamed]_vars

\* C19: a call with the wrong number of arguments fails with
\* ArgumentLength(Some(f)) where its callee is the identifier f, and with
\* ArgumentLength(None) only where its callee is not an identifier.
C19_NamesCallee ==
    (ran[1] = "RunNamed" /\ ran[3] # ran[4])
    => /\ Fails(last.res, "ArgumentLength")
       /\ IF ran[2] = "identifier"
          THEN IsSome(last.res.v.err.arg) /\ Unwrap(last.res.v.err.arg) = "f"
          ELSE ~IsSome(last.res.v.err.arg)

\* fn f() {}; f(1) has failed with ArgumentLength(None).
C19_Failing ==
    /\ ran = <<"RunNamed", "identifier", 0, 1, "stmt">>
    /\ Fails(last.res, "ArgumentLength")
    /\ ~IsSome(last.res.v.err.arg)
    /\ last.res.v.pos = 1800

\* Every call with the wrong number of arguments fails with
\* ArgumentLength(None) at the position of the call, whatever its callee
\* is; every other call succeeds.
C19_AlwaysNone ==
    ran[1] = "RunNamed"
    => IF ran[3] # ran[4]
       THEN /\ Fails(last.res, "ArgumentLength")
            /\ ~IsSome(last.res.v.err.arg)
            /\ last.res.v.pos = 1800
       ELSE last.res.k = "Ok"

(***************************************************************************)
(* The merge of a conditional with both branches: panics and names.        *)
(***************************************************************************)
\* The names each table of env declares.
TableNames(env) == [i \in 1..Len(env.symbol_tables) |-> DOMAIN env.symbol_tables[i]]

\* C20: the check of an IfThenElse does not panic, whatever its branches
\* are, and leaves the real environment with the scopes and the names it
\* had before the conditional.
C20_MergeSafe ==
    ran[1] = "CheckMerge"
    => /\ checked.k # "Panic"
       /\ TableNames(checked.env) = TableNames(MergeEnv(ran[5], ran[6]))

\* if true let z = 1; else { }: the then-copy declares z, the else-copy
\* does not, and the merge has panicked on the else-copy's type of z.
C20_Failing ==
    /\ ran = <<"CheckMerge", "true", "bare_z_num", "empty", 0, 1>>
    /\ IsSome(TypeEnvironment_get_type(ThenCopy, "z"))
    /\ ~IsSome(TypeEnvironment_get_type(ElseCopy, "z"))
    /\ checked.k = "Panic"

\* The check panics exactly where the branches are checked and the
\* then-branch alone is a bare declaration of a new name; where it does
\* not panic the scopes and names are those from before the conditional.
C20_PanicsExactly ==
    ran[1] = "CheckMerge"
    => /\ checked.k = "Panic"
          <=> (ran[2] # "void" /\ ran[3] \in {"bare_z_num", "bare_z_bool"}
                  /\ ran[4] \notin {"bare_z_num", "bare_z_bool"})
       /\ checked.k # "Panic"
          => TableNames(checked.env) = TableNames(MergeEnv(ran[5], ran[6]))

====
